---- MODULE Spec2Model ----
(***************************************************************************)
(* A model of the personal-assistant multi-agent system:                   *)
(*   - the session store behind AssistantSession (assistant_agents/        *)
(*     memory.py),                                                         *)
(*   - the command-line program (main.py): single-shot and interactive     *)
(*     turns run against a session,                                        *)
(*   - the specialists' model/tool loop (assistant_agents/culinary.py,     *)
(*     foodie.py, planner.py, activity.py, __init__.py),                   *)
(*   - the coordinator's dispatch tools (assistant_agents/coordinator.py). *)
(* Each part has its own specification over the shared variables; the      *)
(* variables of the other parts stay at their idle values.                 *)
(***************************************************************************)
EXTENDS Integers, Sequences, FiniteSets, TLC

VARIABLES
    agent_messages,   \* the store's message table: rows [session_id, message_data]
    last_call,        \* the session operation that produced the current state
    env,              \* process environment: [api_key : BOOLEAN, MAX_TURNS : Int]
    argv,             \* parsed command line and entry point
    pc,               \* position of the program
    turn,             \* the agent run of the current (or last) turn
    current_agent,    \* interactive_loop's current_agent
    lines_read,       \* lines the interactive loop has read, with the branch taken
    listing,          \* what display_session_list printed
    exit_code,        \* process exit status, NotExited while running
    sp_agent,         \* the specialist whose process() is running
    sp_pc,            \* position in process(): idle, loop, done, raised
    message,          \* response.choices[0].message of the latest model call
    messages,         \* the transcript process() sends to the model
    tool_call_count,  \* rounds of the while message.tool_calls loop
    sp_return,        \* what process() returned or raised
    next_id,          \* ids the API has handed out to tool calls
    co_pc,            \* position of a coordinator dispatch tool: idle, returned, raised
    co_call,          \* the dispatch tool call the model made
    specialist_runs,  \* the run_*_agent invocations the call made, in order
    co_output,        \* the string the dispatch tool returned to the model
    pl_pc,            \* position of a planner tool function: idle, returned
    pl_input,         \* arguments and travel-time data of the planner tool call
    pl_result,        \* what the planner tool function returned
    fx_pc,            \* position of a fixture tool method: idle, returned
    fx_call,          \* the search or details call made, with the fixture data
    fx_result,        \* what the tool method returned
    rt_pc,            \* the coordinator's Runner: idle, inference, tools, finished
    rt_tasks,         \* the tool calls of the model's latest response, as tasks
    rt_rounds         \* model responses with tool calls handled in this turn

sessionVars == <<agent_messages, last_call>>

mainVars == <<env, argv, pc, turn, current_agent, lines_read, listing, exit_code>>

agentVars == <<sp_agent, sp_pc, message, messages, tool_call_count, sp_return,
               next_id>>

coordVars == <<co_pc, co_call, specialist_runs, co_output>>

plannerVars == <<pl_pc, pl_input, pl_result>>

fixtureVars == <<fx_pc, fx_call, fx_result>>

runnerVars == <<rt_pc, rt_tasks, rt_rounds>>

outsideSession == <<mainVars, agentVars, coordVars, plannerVars, fixtureVars, runnerVars>>

outsideMain == <<agentVars, coordVars, plannerVars, fixtureVars, runnerVars>>

outsideAgent == <<sessionVars, mainVars, coordVars, plannerVars, fixtureVars, runnerVars>>

outsideCoord == <<sessionVars, mainVars, agentVars, plannerVars, fixtureVars, runnerVars>>

outsidePlanner == <<sessionVars, mainVars, agentVars, coordVars, fixtureVars, runnerVars>>

outsideFixture == <<sessionVars, mainVars, agentVars, coordVars, plannerVars, runnerVars>>

outsideRunner == <<sessionVars, mainVars, agentVars, coordVars, plannerVars, fixtureVars>>

vars == <<agent_messages, last_call, env, argv, pc, turn, current_agent,
          lines_read, listing, exit_code, sp_agent, sp_pc, message, messages,
          tool_call_count, sp_return, next_id, co_pc, co_call, specialist_runs,
          co_output, pl_pc, pl_input, pl_result, fx_pc, fx_call, fx_result,
          rt_pc, rt_tasks, rt_rounds>>

(***************************************************************************)
(* Bounds and input sets                                                   *)
(***************************************************************************)
MaxRows == 3          \* rows the store may hold during exploration
MaxBatch == 2         \* items handed to one add_items call

SessionIds == {"s1", "s2"}
Roles == {"user", "assistant"}
Contents == {"a", "b"}

\* A conversation item as the callers build it (main.py:130).
ConversationItems == [role : Roles, content : Contents]

Batches == UNION {[1..n -> ConversationItems] : n \in 1..MaxBatch}

\* Optional[int] limit of get_items: NoLimit stands for None.
NoLimit == -1

(***************************************************************************)
(* The session store.  AssistantSession forwards every item operation to   *)
(* the SDK session bound to its session_id; the store keeps one table of   *)
(* messages, each row tagged with its session id and holding the item      *)
(* serialised (the table shape DatabaseHelper.count_session_items reads).  *)
(***************************************************************************)
JsonDumpsItem(item) == <<item.role, item.content>>

JsonLoadsItem(data) == [role |-> data[1], content |-> data[2]]

SessionRows(rows, sid) == SelectSeq(rows, LAMBDA r : r.session_id = sid)

LastN(s, n) == IF n >= Len(s) THEN s ELSE SubSeq(s, Len(s) - n + 1, Len(s))

get_items(rows, sid, limit) ==
    LET mine == SessionRows(rows, sid)
        all  == [i \in 1..Len(mine) |-> JsonLoadsItem(mine[i].message_data)]
    IN  IF limit = NoLimit THEN all ELSE LastN(all, limit)

add_items_prepend(rows, sid, items) ==
    [i \in 1..Len(items) |->
        [session_id |-> sid, message_data |-> JsonDumpsItem(items[i])]] \o rows

add_items(rows, sid, items) ==
    rows \o [i \in 1..Len(items) |->
        [session_id |-> sid, message_data |-> JsonDumpsItem(items[i])]]

\* Index of the most recent row of the session, 0 when it has none.
LastRowIndex(rows, sid) ==
    LET idx == {i \in 1..Len(rows) : rows[i].session_id = sid}
    IN  IF idx = {} THEN 0 ELSE CHOOSE i \in idx : \A j \in idx : j <= i

RemoveAt(s, k) == [i \in 1..(Len(s) - 1) |-> IF i < k THEN s[i] ELSE s[i + 1]]

\* Mutation of pop_item: the oldest row of the session is taken.
pop_item_oldest(rows, sid) ==
    LET idx == {i \in 1..Len(rows) : rows[i].session_id = sid}
        k == IF idx = {} THEN 0 ELSE CHOOSE i \in idx : \A j \in idx : i <= j
    IN  IF k = 0 THEN <<rows, <<>>>>
        ELSE <<RemoveAt(rows, k), <<JsonLoadsItem(rows[k].message_data)>>>>

\* pop_item: <<table after, returned item (<<>> for None)>>.
pop_item(rows, sid) ==
    LET k == LastRowIndex(rows, sid)
    IN  IF k = 0 THEN <<rows, <<>>>>
        ELSE <<RemoveAt(rows, k), <<JsonLoadsItem(rows[k].message_data)>>>>

\* Mutation of clear_session: only the most recent row is deleted.
clear_session_last_row(rows, sid) ==
    IF LastRowIndex(rows, sid) = 0 THEN rows ELSE RemoveAt(rows, LastRowIndex(rows, sid))

clear_session(rows, sid) == SelectSeq(rows, LAMBDA r : r.session_id # sid)

get_item_count(rows, sid) == Len(get_items(rows, sid, NoLimit))

NoCall == [op |-> "init", sid |-> "s1", arg |-> <<>>, ret |-> <<>>, prev |-> "none"]

NotExited == -1

NoTurn == [caller |-> "none", status |-> "idle", input |-> "", base |-> 0,
           want |-> 0, calls |-> 0, max_turns |-> 0, has_session |-> FALSE,
           seen |-> <<>>, new_items |-> <<>>, report |-> "none",
           content |-> ""]

NoMessage == [content |-> "", tool_calls |-> <<>>]

NoReturn == [kind |-> "none", content |-> "", agent |-> "", error |-> ""]

\* The specialists' variables while no process() call is modelled.
AgentIdle ==
    /\ sp_agent = "none"
    /\ sp_pc = "idle"
    /\ message = NoMessage
    /\ messages = <<>>
    /\ tool_call_count = 0
    /\ sp_return = NoReturn
    /\ next_id = 1

\* Python's None for an optional value; a present value v is <<v>>.
None == <<>>

\* create_plan's three optional specialist result parameters.
ResultKeys == {"activity_results", "culinary_results", "foodie_results"}

NoResults == [k \in ResultKeys |-> None]

NoDispatch == [tool |-> "none", query |-> "", age |-> None, indoor_preference |-> None,
               cuisine |-> None, meal_type |-> None, location |-> None,
               results |-> NoResults]

NoResult == [error |-> None, content |-> None, agent |-> None]

NoOutput == <<"none", NoResult>>

\* The coordinator's dispatch tools while none has been called.
CoordIdle ==
    /\ co_pc = "idle"
    /\ co_call = NoDispatch
    /\ specialist_runs = <<>>
    /\ co_output = NoOutput

NoPlannerInput == [activities |-> <<>>, start_time |-> <<>>, end_time |-> None,
                   travel_times |-> <<>>]

NoPlannerResult == [error |-> None, optimized_schedule |-> <<>>]

\* The planner's tool functions while none has been called.
PlannerIdle ==
    /\ pl_pc = "idle"
    /\ pl_input = NoPlannerInput
    /\ pl_result = NoPlannerResult

NoFixtureCall == [tool |-> "none", data |-> <<>>, args |-> <<>>]

NoFixtureResult == [kind |-> "none", items |-> <<>>]

\* The fixture tool methods while none has been called.
FixtureIdle ==
    /\ fx_pc = "idle"
    /\ fx_call = NoFixtureCall
    /\ fx_result = NoFixtureResult

\* The coordinator's Runner while no turn is running.
RunnerIdle ==
    /\ rt_pc = "idle"
    /\ rt_tasks = <<>>
    /\ rt_rounds = 0

\* What can go wrong with one session while the sessions are listed.
FaultModes == {"none", "constructor", "get_items", "get_items_and_fallback"}

NoFaults == [s \in SessionIds |-> "none"]

NoListing == [faults |-> NoFaults, sessions |-> {}]

\* The main program's variables while it is not the part exercised.
MainIdle ==
    /\ env = [api_key |-> TRUE, MAX_TURNS |-> 0]
    /\ argv = [entry |-> "none", list_sessions |-> FALSE, clear_session |-> FALSE,
               query |-> "", session_id |-> "s1"]
    /\ pc = "idle"
    /\ turn = NoTurn
    /\ current_agent = "none"
    /\ lines_read = <<>>
    /\ listing = NoListing
    /\ exit_code = NotExited

(***************************************************************************)
(* Session operations as a client of AssistantSession issues them.         *)
(***************************************************************************)
\* The operation called just before on the same session, "none" otherwise.
PrevOp(sid) == IF last_call.sid = sid THEN last_call.op ELSE "none"

AddItems(sid, items) ==
    /\ Len(agent_messages) + Len(items) <= MaxRows
    /\ UNCHANGED outsideSession
    /\ agent_messages' = add_items(agent_messages, sid, items)
    /\ last_call' = [op |-> "add_items", sid |-> sid, arg |-> items, ret |-> <<>>,
                     prev |-> PrevOp(sid)]

PopItem(sid) ==
    LET r == pop_item(agent_messages, sid)
    IN  /\ agent_messages' = r[1]
        /\ UNCHANGED outsideSession
        /\ last_call' = [op |-> "pop_item", sid |-> sid, arg |-> <<>>, ret |-> r[2],
                         prev |-> PrevOp(sid)]

ClearSession(sid) ==
    /\ UNCHANGED outsideSession
    /\ agent_messages' = clear_session(agent_messages, sid)
    /\ last_call' = [op |-> "clear_session", sid |-> sid, arg |-> <<>>, ret |-> <<>>,
                     prev |-> PrevOp(sid)]

GetItems(sid, limit) ==
    /\ UNCHANGED outsideSession
    /\ agent_messages' = agent_messages
    /\ last_call' = [op |-> "get_items", sid |-> sid, arg |-> <<>>,
                     ret |-> get_items(agent_messages, sid, limit),
                     prev |-> PrevOp(sid)]

InitSession ==
    /\ MainIdle
    /\ AgentIdle
    /\ CoordIdle
    /\ PlannerIdle
    /\ FixtureIdle
    /\ RunnerIdle
    /\ agent_messages = <<>>
    /\ last_call = NoCall

NextSession ==
    \/ \E sid \in SessionIds, items \in Batches : AddItems(sid, items)
    \/ \E sid \in SessionIds : PopItem(sid)
    \/ \E sid \in SessionIds : ClearSession(sid)
    \/ \E sid \in SessionIds, limit \in {NoLimit, 1} : GetItems(sid, limit)

SpecSession == InitSession /\ [][NextSession]_vars

(***************************************************************************)
(* C1: for one session, after any sequence of add_items, pop_item and      *)
(* clear_session calls, get_items() returns exactly the items appended and *)
(* not since popped or cleared, in append order and with unchanged         *)
(* content: every step changes what get_items() returns for a session      *)
(* only by appending the added items at the end, dropping the last item    *)
(* (pop) or emptying it (clear), and calls on another session change       *)
(* nothing; after add_items([x]) the last element of get_items() is x.     *)
(***************************************************************************)
Front(s) == IF s = <<>> THEN <<>> ELSE SubSeq(s, 1, Len(s) - 1)

C1_Step(sid) ==
    LET before == get_items(agent_messages, sid, NoLimit)
        after  == get_items(agent_messages', sid, NoLimit)
        c      == last_call'
    IN  IF c.sid # sid THEN after = before
        ELSE CASE c.op = "add_items" ->
                    /\ after = before \o c.arg
                    /\ after[Len(after)] = c.arg[Len(c.arg)]
               [] c.op = "pop_item" ->
                    /\ after = Front(before)
                    /\ c.ret = IF before = <<>> THEN <<>>
                               ELSE <<before[Len(before)]>>
               [] c.op = "clear_session" -> after = <<>>
               [] OTHER -> after = before

C1_GetItemsReplaysAppends == [][\A sid \in SessionIds : C1_Step(sid)]_vars

C1_Witness ==
    /\ last_call.op = "pop_item"
    /\ last_call.sid = "s1"
    /\ last_call.ret # <<>>
    /\ Len(get_items(agent_messages, "s1", NoLimit)) = 1
    /\ Len(get_items(agent_messages, "s2", NoLimit)) = 1
    /\ agent_messages[1].session_id = "s2"

(***************************************************************************)
(* The command-line program (main.py).                                      *)
(*                                                                         *)
(* An agent run (the SDK Runner) calls the model up to max_turns times;    *)
(* a response either requests tools (one more round) or is the final       *)
(* answer.  turn.want is the number of tool rounds the model asks for      *)
(* before it answers, drawn when the run starts.  A run that was given a   *)
(* session reads the session's items as history and, when it ends with a   *)
(* final answer, stores its input item and the items it produced.          *)
(***************************************************************************)
MaxInputs == 2          \* lines the interactive loop reads in one exploration
MaxWant == 3            \* most tool rounds the model may ask for in one run
StreamedMaxTurns == 2   \* the Runner's own ceiling when main.py passes none
MAX_TURNS_DEFAULT == 5  \* int(os.environ.get("MAX_TURNS", 5))

UserInputs == {"a", "b"}

HOME == "Home (Sunnyvale)"

\* str.lower() on the strings in use.
lower(s) ==
    CASE s = "X"        -> "x"
      [] s = "Y"        -> "y"
      [] s = HOME       -> "home (sunnyvale)"
      [] s = "/CLEAR"   -> "/clear"
      [] s = " /CLEAR " -> " /clear "
      [] s = "Quit"     -> "quit"
      [] OTHER          -> s

\* str.strip() on the strings in use.
strip(s) ==
    CASE s = " /clear " -> "/clear"
      [] s = " /CLEAR " -> "/CLEAR"
      [] s = " "        -> ""
      [] OTHER          -> s

\* Lines the user may type at the prompt.
Lines == UserInputs \cup {"/clear", "/CLEAR", " /clear ", "exit", "Quit", "", " "}

\* The branch interactive_loop takes on a line.
Branch(user_input) ==
    LET user_input_lower == lower(strip(user_input))
    IN  IF user_input_lower \in {"exit", "quit"} THEN "exit"
        ELSE IF user_input = "" THEN "empty"
        ELSE IF user_input_lower = "/clear" THEN "clear"
        ELSE "input"

LineRead(user_input) == [line |-> user_input, branch |-> Branch(user_input)]
Answers == {"ans"}
Unset == 0              \* an environment variable that is not set

ToolCallItem == [role |-> "assistant", content |-> "tool_call"]
ToolOutputItem == [role |-> "tool", content |-> "tool_output"]
UserItem(text) == [role |-> "user", content |-> text]
AnswerItem(text) == [role |-> "assistant", content |-> text]

Row(sid, item) == [session_id |-> sid, message_data |-> JsonDumpsItem(item)]

\* Persistent stores the program may find at startup.
InitialStores ==
    { <<>>,
      <<Row("s1", UserItem("a")), Row("s1", AnswerItem("ans"))>>,
      <<Row("s2", UserItem("b")), Row("s1", UserItem("a"))>> }

SessionItems == get_items(agent_messages, argv.session_id, NoLimit)

\* An environment check that accepts a missing key.
check_environment_lenient(e) == TRUE

\* check_environment: OPENAI_API_KEY must be set.
check_environment(e) == e.api_key

\* run_coordinator_agent's parameters (its signature has no **kwargs).
run_coordinator_agent_params ==
    {"query", "agent", "activity_agent", "culinary_agent", "foodie_agent",
     "planner_agent", "event_handler"}

\* Python binds a call's keyword arguments only to declared parameters;
\* any other keyword raises TypeError before the body runs.
BindsKeywords(params, kwargs) == kwargs \subseteq params

\* The keyword arguments run_single_query passes to run_coordinator_agent.
run_single_query_kwargs == {"event_handler", "session"}

\* max_turns as run_coordinator_agent reads it.
coordinator_max_turns(e) ==
    IF e.MAX_TURNS = Unset THEN MAX_TURNS_DEFAULT ELSE e.MAX_TURNS

\* What a run stores in its session when it ends: on a final answer the
\* input item and the items produced, nothing when the run is abandoned.
SavedOnAbandonPartial(t, outcome) ==
    IF ~t.has_session THEN <<>>
    ELSE IF outcome = "completed" THEN <<UserItem(t.input)>> \o t.new_items
    ELSE t.new_items

SavedToSession(t, outcome) ==
    IF t.has_session /\ outcome = "completed"
    THEN <<UserItem(t.input)>> \o t.new_items
    ELSE <<>>

InitMain ==
    /\ AgentIdle
    /\ CoordIdle
    /\ PlannerIdle
    /\ FixtureIdle
    /\ RunnerIdle
    /\ last_call = NoCall
    /\ agent_messages \in InitialStores
    /\ env \in [api_key : BOOLEAN, MAX_TURNS : {Unset, 1}]
    /\ argv \in [entry : {"main", "run_coordinator_agent"},
                 list_sessions : BOOLEAN, clear_session : BOOLEAN,
                 query : {"", "a"}, session_id : {"s1"}]
    /\ (argv.entry = "run_coordinator_agent" =>
            /\ ~argv.list_sessions /\ ~argv.clear_session
            /\ argv.query # "" /\ env.api_key)
    /\ pc = "start"
    /\ turn = NoTurn
    /\ current_agent = "none"
    /\ lines_read = <<>>
    /\ listing = NoListing
    /\ exit_code = NotExited

\* main(): check_environment fails -> sys.exit(1).
ConfigurationExit ==
    /\ pc = "start" /\ argv.entry = "main"
    /\ ~check_environment(env)
    /\ pc' = "exited"
    /\ exit_code' = 1
    /\ UNCHANGED <<outsideMain, sessionVars, env, argv, turn, current_agent, lines_read, listing>>

\* Mutation of main_mode: the session is created (and cleared) even when the
\* listing is asked for.
main_mode_session_first(a) ==
    IF a.clear_session THEN "session"
    ELSE IF a.list_sessions THEN "list"
    ELSE "session"

\* main(): --list-sessions is handled, and main returns, before the session
\* is created or cleared.
main_mode(a) == IF a.list_sessions THEN "list" ELSE "session"

\* DatabaseHelper.count_session_items: the session's rows counted in the table.
count_session_items(rows, sid) == Len(SessionRows(rows, sid))

\* get_item_count with its handlers: len(get_items()); if that raises, the
\* count read from the table; if that raises too, 0.
get_item_count_guarded(rows, sid, fault) ==
    CASE fault = "get_items"              -> count_session_items(rows, sid)
      [] fault = "get_items_and_fallback" -> 0
      [] OTHER                            -> get_item_count(rows, sid)

\* list_all_sessions: one entry per session id found in the table; an
\* exception while handling an id gives an entry with an error.
list_all_sessions(rows, faults) ==
    { IF faults[s] = "constructor"
      THEN [session_id |-> s, message_count |-> None, error |-> <<"boom">>]
      ELSE [session_id |-> s,
            message_count |-> <<get_item_count_guarded(rows, s, faults[s])>>,
            error |-> None] :
        s \in {rows[i].session_id : i \in 1..Len(rows)} }

\* main(): --list-sessions -> display_session_list, return.
DisplaySessionList ==
    /\ pc = "start" /\ argv.entry = "main"
    /\ check_environment(env)
    /\ main_mode(argv) = "list"
    /\ \E faults \in [SessionIds -> FaultModes] :
          listing' = [faults |-> faults,
                      sessions |-> list_all_sessions(agent_messages, faults)]
    /\ pc' = "done"
    /\ exit_code' = 0
    /\ UNCHANGED <<outsideMain, sessionVars, env, argv, turn, current_agent, lines_read>>

\* main(): create the session, clear it if asked, count, build the agents.
\* clear_session is awaited outside any try: if the store raises, the
\* exception leaves main and the interpreter exits with status 1.
CreateSession(clear_raises) ==
    /\ pc = "start" /\ argv.entry = "main"
    /\ check_environment(env)
    /\ main_mode(argv) = "session"
    /\ clear_raises => argv.clear_session
    /\ IF clear_raises
       THEN /\ pc' = "crashed"
            /\ exit_code' = 1
            /\ UNCHANGED <<agent_messages, current_agent>>
       ELSE /\ agent_messages' = IF argv.clear_session
                                 THEN clear_session(agent_messages, argv.session_id)
                                 ELSE agent_messages
            /\ current_agent' = "Head Coordinator Agent"
            /\ pc' = IF argv.query # "" THEN "single" ELSE "prompt"
            /\ exit_code' = exit_code
    /\ UNCHANGED <<outsideMain, last_call, env, argv, turn, lines_read, listing>>

\* A run starting: the record of what it was given.
StartRun(caller, input, base, want, maxTurns, hasSession, history) ==
    [caller |-> caller, status |-> "running", input |-> input, base |-> base,
     want |-> want, calls |-> 0, max_turns |-> maxTurns,
     has_session |-> hasSession, seen |-> history \o <<UserItem(input)>>,
     new_items |-> <<>>, report |-> "none", content |-> ""]

\* run_single_query: append the user item, call run_coordinator_agent with
\* event_handler= and session=; any exception is logged and the function
\* returns.
RunSingleQuery(want) ==
    /\ pc = "single"
    /\ LET base  == Len(SessionItems)
           added == add_items(agent_messages, argv.session_id,
                              <<UserItem(argv.query)>>)
       IN  /\ agent_messages' = added
           /\ IF BindsKeywords(run_coordinator_agent_params, run_single_query_kwargs)
              THEN /\ turn' = StartRun("run_single_query", argv.query, base, want,
                                       coordinator_max_turns(env), FALSE, <<>>)
                   /\ pc' = "running"
                   /\ exit_code' = exit_code
              ELSE /\ turn' = [StartRun("run_single_query", argv.query, base, want,
                                        coordinator_max_turns(env), FALSE, <<>>)
                                 EXCEPT !.status = "type_error",
                                        !.report = "unexpected_error"]
                   /\ pc' = "done"
                   /\ exit_code' = 0
    /\ UNCHANGED <<outsideMain, last_call, env, argv, current_agent, lines_read, listing>>

\* run_coordinator_agent called with the arguments its signature accepts.
RunCoordinatorAgent(want) ==
    /\ pc = "start" /\ argv.entry = "run_coordinator_agent"
    /\ turn' = StartRun("run_coordinator_agent", argv.query, Len(SessionItems),
                        want, coordinator_max_turns(env), FALSE, <<>>)
    /\ current_agent' = "Head Coordinator Agent"
    /\ pc' = "running"
    /\ UNCHANGED <<outsideMain, sessionVars, env, argv, lines_read, listing, exit_code>>

\* interactive_loop: input() raises EOFError or KeyboardInterrupt.
EndOfInput ==
    /\ pc = "prompt"
    /\ pc' = "done"
    /\ exit_code' = 0
    /\ UNCHANGED <<outsideMain, sessionVars, env, argv, turn, current_agent, lines_read, listing>>

\* interactive_loop: exit or quit.
ReadExit(user_input) ==
    /\ pc = "prompt"
    /\ Branch(user_input) = "exit"
    /\ lines_read' = Append(lines_read, LineRead(user_input))
    /\ pc' = "done"
    /\ exit_code' = 0
    /\ UNCHANGED <<outsideMain, sessionVars, env, argv, turn, current_agent, listing>>

\* interactive_loop: an empty line; the loop reads the next one.
ReadEmpty(user_input) ==
    /\ pc = "prompt"
    /\ Len(lines_read) < MaxInputs
    /\ Branch(user_input) = "empty"
    /\ lines_read' = Append(lines_read, LineRead(user_input))
    /\ UNCHANGED <<outsideMain, sessionVars, env, argv, pc, turn, current_agent, listing,
                   exit_code>>

\* interactive_loop: the /clear command; no run belongs to the emptied
\* history.  clear_session is awaited outside any try: if the store raises,
\* the exception leaves the loop and main.
ReadClear(user_input, clear_raises) ==
    /\ pc = "prompt"
    /\ Len(lines_read) < MaxInputs
    /\ Branch(user_input) = "clear"
    /\ lines_read' = Append(lines_read, LineRead(user_input))
    /\ turn' = NoTurn
    /\ IF clear_raises
       THEN /\ pc' = "crashed"
            /\ exit_code' = 1
            /\ agent_messages' = agent_messages
       ELSE /\ agent_messages' = clear_session(agent_messages, argv.session_id)
            /\ UNCHANGED <<pc, exit_code>>
    /\ UNCHANGED <<outsideMain, last_call, env, argv, current_agent, listing>>

\* process_user_input, up to the start of the streamed run: append the user
\* item, then Runner.run_streamed(input=user_input, session=session.session).
\* If session.add_items raises, the except of process_user_input reports the
\* issue and returns current_agent.
ProcessUserInput(text, want, add_raises) ==
    /\ pc = "prompt"
    /\ Len(lines_read) < MaxInputs
    /\ Branch(text) = "input"
    /\ lines_read' = Append(lines_read, LineRead(text))
    /\ LET base  == Len(SessionItems)
           added == add_items(agent_messages, argv.session_id, <<UserItem(text)>>)
           run   == StartRun("process_user_input", text, base, want,
                             StreamedMaxTurns, TRUE,
                             get_items(added, argv.session_id, NoLimit))
       IN  IF add_raises
           THEN /\ agent_messages' = agent_messages
                /\ turn' = [run EXCEPT !.status = "append_error", !.report = "issue"]
                /\ pc' = "prompt"
           ELSE /\ agent_messages' = added
                /\ turn' = run
                /\ pc' = "running"
    /\ UNCHANGED <<outsideMain, last_call, env, argv, current_agent, listing, exit_code>>

\* Every caller ending the program when its run is over.
AfterRunEnds(caller) == "done"

\* Mutation of session_after_failure: the handler undoes the last append.
session_after_failure_undo(rows, sid, caller) ==
    IF caller = "process_user_input" THEN pop_item(rows, sid)[1] ELSE rows

\* The session's table when a failed run has been handled: the handlers of
\* process_streaming_output, process_user_input and run_coordinator_agent
\* print, log and return; none of them pops or clears.
session_after_failure(rows, sid, caller) == rows

\* Where control goes when the run of a turn is over.
AfterRun(caller) == IF caller = "process_user_input" THEN "prompt" ELSE "done"

\* How the caller reports a run that raised: process_streaming_output writes
\* "[Error processing response]"; run_coordinator_agent returns an apology.
ErrorReport(caller) ==
    IF caller = "process_user_input" THEN "stream_error" ELSE "apology"

\* One model call that requests tools: the tools run and their items are
\* added to the run.
RunnerToolRound ==
    /\ pc = "running"
    /\ turn.calls < turn.max_turns
    /\ turn.calls < turn.want
    /\ turn' = [turn EXCEPT !.calls = @ + 1,
                            !.new_items = @ \o <<ToolCallItem, ToolOutputItem>>]
    /\ UNCHANGED <<outsideMain, sessionVars, env, argv, pc, current_agent, lines_read, listing,
                   exit_code>>

\* The model call that returns the final answer; the run ends.
RunnerFinalOutput(ans) ==
    /\ pc = "running"
    /\ turn.calls < turn.max_turns
    /\ turn.calls = turn.want
    /\ LET done == [turn EXCEPT !.calls = @ + 1,
                                !.new_items = @ \o <<AnswerItem(ans)>>,
                                !.status = "completed",
                                !.report = "answer",
                                !.content = ans]
       IN  /\ turn' = done
           /\ agent_messages' = add_items(agent_messages, argv.session_id,
                                          SavedToSession(done, "completed"))
    /\ pc' = AfterRun(turn.caller)
    /\ exit_code' = IF AfterRun(turn.caller) = "done" THEN 0 ELSE exit_code
    /\ UNCHANGED <<outsideMain, last_call, env, argv, current_agent, lines_read, listing>>

\* The round-trip budget is used up: the run raises MaxTurnsExceeded, which
\* the caller catches and reports.
RunnerMaxTurnsExceeded ==
    /\ pc = "running"
    /\ turn.calls >= turn.max_turns
    /\ turn' = [turn EXCEPT !.status = "max_turns",
                            !.report = ErrorReport(turn.caller),
                            !.content = "apology"]
    /\ agent_messages' = session_after_failure(
                             add_items(agent_messages, argv.session_id,
                                       SavedToSession(turn, "max_turns")),
                             argv.session_id, turn.caller)
    /\ pc' = AfterRun(turn.caller)
    /\ exit_code' = IF AfterRun(turn.caller) = "done" THEN 0 ELSE exit_code
    /\ UNCHANGED <<outsideMain, last_call, env, argv, current_agent, lines_read, listing>>

\* A model call fails (the API raises): the caller catches and reports it.
RunnerRaises ==
    /\ pc = "running"
    /\ turn.calls < turn.max_turns
    /\ turn' = [turn EXCEPT !.status = "error",
                            !.report = ErrorReport(turn.caller),
                            !.content = "apology"]
    /\ agent_messages' = session_after_failure(
                             add_items(agent_messages, argv.session_id,
                                       SavedToSession(turn, "error")),
                             argv.session_id, turn.caller)
    /\ pc' = AfterRun(turn.caller)
    /\ exit_code' = IF AfterRun(turn.caller) = "done" THEN 0 ELSE exit_code
    /\ UNCHANGED <<outsideMain, last_call, env, argv, current_agent, lines_read, listing>>

NextMain ==
    \/ ConfigurationExit
    \/ DisplaySessionList
    \/ \E clear_raises \in BOOLEAN : CreateSession(clear_raises)
    \/ \E want \in 0..MaxWant : RunSingleQuery(want)
    \/ \E want \in 0..MaxWant : RunCoordinatorAgent(want)
    \/ EndOfInput
    \/ \E user_input \in Lines : ReadExit(user_input)
    \/ \E user_input \in Lines : ReadEmpty(user_input)
    \/ \E user_input \in Lines, clear_raises \in BOOLEAN :
            ReadClear(user_input, clear_raises)
    \/ \E text \in Lines, want \in 0..MaxWant, add_raises \in BOOLEAN :
            ProcessUserInput(text, want, add_raises)
    \/ RunnerToolRound
    \/ \E ans \in Answers : RunnerFinalOutput(ans)
    \/ RunnerMaxTurnsExceeded
    \/ RunnerRaises

SpecMain == InitMain /\ [][NextMain]_vars

\* The items the session gained since the current turn began.
TurnItems == SubSeq(SessionItems, turn.base + 1, Len(SessionItems))

(***************************************************************************)
(* C2: after an interactive turn that completes normally, the session      *)
(* holds for that turn the user's input exactly once, followed by the      *)
(* items the agent run produced.                                           *)
(***************************************************************************)
C2_UserInputStoredOnce ==
    (turn.caller = "process_user_input" /\ turn.status = "completed")
    => TurnItems = <<UserItem(turn.input)>> \o turn.new_items

(***************************************************************************)
(* C3: in single-shot mode, when the coordinator has a final answer to     *)
(* give (the model answers within the round-trip budget), the turn ends    *)
(* with the user item followed by the answer in the session.               *)
(***************************************************************************)
C3_SingleShotAnswerAppended ==
    (pc = "done" /\ turn.caller = "run_single_query" /\ turn.want < turn.max_turns)
    => /\ Len(TurnItems) >= 2
       /\ TurnItems[1] = UserItem(argv.query)
       /\ TurnItems[Len(TurnItems)].role = "assistant"
       /\ TurnItems[Len(TurnItems)].content \in Answers

MaxCalls == 2           \* tool calls in one model response
MaxRichRounds == 1      \* rounds whose response is drawn from every shape
MaxRounds == 16         \* rounds explored before the model must answer
WRAPPER_MAX_TURNS == 15 \* AgentWrapper.process: "max_turns": 15

Specialists == {"activity", "culinary", "foodie", "planner"}

AgentName(a) ==
    CASE a = "activity" -> "Activity Suggestion Agent"
      [] a = "culinary" -> "Culinary Agent"
      [] a = "foodie"   -> "Foodie Agent"
      [] OTHER          -> "Planner Agent"

\* Names of the tools each specialist registers in _setup_tools.
ToolNames(a) ==
    CASE a = "activity" ->
            {"search_activities", "get_activity_details", "get_toddler_activities"}
      [] a = "culinary" ->
            {"search_recipes", "get_recipe_details", "get_favorite_recipes",
             "get_kid_friendly_recipes"}
      [] a = "foodie" ->
            {"search_restaurants", "get_restaurant_details",
             "get_favorite_restaurants", "get_kid_friendly_restaurants",
             "get_restaurant_travel_time"}
      [] OTHER ->
            {"calculate_travel_time", "optimize_schedule", "create_itinerary"}

\* BaseAgent.__init__ creates self.client.  ActivityAgent's super().__init__
\* resolves to AgentWrapper.__init__, which does not chain to it.
has_client(a) == a # "activity"

\* Tool names the model asks for: two the agent has and one it has not.
RequestedNames(a) ==
    CASE a = "activity" -> {"search_activities", "get_activity_details", "no_such_tool"}
      [] a = "culinary" -> {"search_recipes", "get_recipe_details", "no_such_tool"}
      [] a = "foodie"   -> {"search_restaurants", "get_restaurant_details", "no_such_tool"}
      [] OTHER          -> {"calculate_travel_time", "optimize_schedule", "no_such_tool"}

\* Argument strings the model supplies: two that decode and that the tool
\* accepts, one that json.loads cannot decode, one that decodes to keywords
\* on which the tool function raises.
ArgumentStrings == {"args1", "args2", "undecodable", "rejected"}

json_loads_fails(arguments) == arguments = "undecodable"

tool_raises(name, arguments) == arguments = "rejected"

\* The value a tool returns: a function of the tool and its arguments.
tool_execute(name, arguments) == <<name, arguments>>

json_dumps(value) == <<"json", value>>

ToolCall(id, name, arguments) == [id |-> id, name |-> name, arguments |-> arguments]

ToolResult(name, result) == [name |-> name, result |-> result]

\* Responses with tool calls: k calls carrying the ids first .. first+k-1.
CallShapes(a) == [name : RequestedNames(a), arguments : ArgumentStrings]

ToolCallResponses(a, first) ==
    UNION { { [content |-> "",
               tool_calls |-> [i \in 1..k |->
                    ToolCall(first + i - 1, shape[i].name, shape[i].arguments)]] :
              shape \in [1..k -> CallShapes(a)] } : k \in 1..MaxCalls }

\* After the rich rounds the model keeps asking for one known tool.
RepeatResponse(a, first) ==
    [content |-> "",
     tool_calls |-> <<ToolCall(first, CHOOSE n \in RequestedNames(a) : n \in ToolNames(a),
                               "args1")>>]

FinalResponse == [content |-> "final", tool_calls |-> <<>>]

\* The responses explored for the model call that follows round `rounds`.
Responses(a, rounds, first) ==
    {FinalResponse} \cup
    (IF rounds >= MaxRounds THEN {}
     ELSE IF rounds < MaxRichRounds THEN ToolCallResponses(a, first)
     ELSE {RepeatResponse(a, first)})

(* execute_tool_calls: for each call in order, look the tool up by name;   *)
(* a call whose tool is not found is skipped; otherwise decode the         *)
(* arguments, run the tool, append ToolResult.  Nothing is caught.         *)
Known(a, tc) == tc.name \in ToolNames(a)

CallFails(a, tc) ==
    Known(a, tc) /\ (json_loads_fails(tc.arguments) \/ tool_raises(tc.name, tc.arguments))

FailureKind(tc) ==
    IF json_loads_fails(tc.arguments) THEN "JSONDecodeError" ELSE "ToolError"

execute_tool_calls(a, tool_calls) ==
    LET failing == {i \in 1..Len(tool_calls) : CallFails(a, tool_calls[i])}
        known   == SelectSeq(tool_calls, LAMBDA tc : Known(a, tc))
    IN  IF failing # {}
        THEN [raised |-> FailureKind(tool_calls[CHOOSE i \in failing :
                                                    \A j \in failing : i <= j]),
              results |-> <<>>]
        ELSE [raised |-> "",
              results |-> [i \in 1..Len(known) |->
                    ToolResult(known[i].name,
                               tool_execute(known[i].name, known[i].arguments))]]

\* list.index(x): the first position holding a value equal to x.
index(seq, x) == CHOOSE i \in 1..Len(seq) : seq[i] = x /\ \A j \in 1..(i - 1) : seq[j] # x

Msg(role, content, id, calls) ==
    [role |-> role, content |-> content, tool_call_id |-> id, tool_calls |-> calls]

\* The items one round appends: the assistant item with the calls, then one
\* tool item per result, its id looked up by the result's index.
RoundItems(msg, tool_results) ==
    <<Msg("assistant", <<>>, 0, msg.tool_calls)>> \o
    [i \in 1..Len(tool_results) |->
        Msg("tool", json_dumps(tool_results[i].result),
            msg.tool_calls[index(tool_results, tool_results[i])].id, <<>>)]

\* process(user_input): build the transcript and make the first model call.
Process(a, resp) ==
    /\ sp_pc = "idle"
    /\ sp_agent' = a
    /\ messages' = <<Msg("system", <<"system_prompt">>, 0, <<>>),
                     Msg("user", <<"user_input">>, 0, <<>>)>>
    /\ tool_call_count' = 0
    /\ IF has_client(a)
       THEN /\ message' = resp
            /\ next_id' = next_id + Len(resp.tool_calls)
            /\ sp_pc' = "loop"
            /\ sp_return' = NoReturn
       ELSE /\ message' = NoMessage
            /\ next_id' = next_id
            /\ sp_pc' = "raised"
            /\ sp_return' = [NoReturn EXCEPT !.kind = "raised",
                                             !.error = "AttributeError"]
    /\ UNCHANGED outsideAgent

\* One pass of the while message.tool_calls loop.
ToolRound(resp) ==
    /\ sp_pc = "loop"
    /\ message.tool_calls # <<>>
    /\ LET exec == execute_tool_calls(sp_agent, message.tool_calls)
       IN  IF exec.raised # ""
           THEN /\ sp_pc' = "raised"
                /\ sp_return' = [NoReturn EXCEPT !.kind = "raised",
                                                 !.error = exec.raised]
                /\ UNCHANGED <<message, messages, tool_call_count, next_id>>
           ELSE /\ tool_call_count' = tool_call_count + 1
                /\ messages' = messages \o RoundItems(message, exec.results)
                /\ message' = resp
                /\ next_id' = next_id + Len(resp.tool_calls)
                /\ UNCHANGED <<sp_pc, sp_return>>
    /\ UNCHANGED <<sp_agent, outsideAgent>>

\* The model's message has no tool calls: return {content, agent}.
Return ==
    /\ sp_pc = "loop"
    /\ message.tool_calls = <<>>
    /\ sp_pc' = "done"
    /\ sp_return' = [kind |-> "returned", content |-> message.content,
                     agent |-> AgentName(sp_agent), error |-> ""]
    /\ UNCHANGED <<sp_agent, message, messages, tool_call_count, next_id, outsideAgent>>

InitAgent ==
    /\ InitSession

NextAgent ==
    \/ \E a \in Specialists : \E resp \in Responses(a, 0, next_id) : Process(a, resp)
    \/ \E resp \in Responses(sp_agent, tool_call_count + 1, next_id) : ToolRound(resp)
    \/ Return

SpecAgent == InitAgent /\ [][NextAgent]_vars

(***************************************************************************)
(* C5: every specialist run terminates: the loop ends when the model       *)
(* returns no tool calls or when the max-turns bound on round trips is     *)
(* reached, so no run makes more rounds than the bound.                    *)
(***************************************************************************)
C5_RoundsBounded == tool_call_count <= WRAPPER_MAX_TURNS

(***************************************************************************)
(* C6: in a tool round, every tool call of the model's response gets       *)
(* exactly one tool-role item in the transcript, and that item carries the *)
(* result of the call whose id it bears.                                   *)
(***************************************************************************)
ToolItemsFor(id) ==
    {j \in 1..Len(messages) : messages[j].role = "tool" /\ messages[j].tool_call_id = id}

C6_OneToolItemPerCall ==
    \A m \in 1..Len(messages) :
        \A c \in 1..Len(messages[m].tool_calls) :
            LET tc == messages[m].tool_calls[c]
            IN  /\ Cardinality(ToolItemsFor(tc.id)) = 1
                /\ Known(sp_agent, tc) =>
                     \A j \in ToolItemsFor(tc.id) :
                         messages[j].content =
                             json_dumps(tool_execute(tc.name, tc.arguments))

(***************************************************************************)
(* C7: a failure of a single tool call inside a specialist (the tool       *)
(* raises, or its arguments cannot be decoded) does not end the            *)
(* specialist's turn: process() never raises because of it.                *)
(***************************************************************************)
C7_ToolFailureDoesNotEndTurn ==
    ~(sp_pc = "raised" /\ sp_return.error \in {"JSONDecodeError", "ToolError"})

(***************************************************************************)
(* The coordinator's dispatch tools: get_activity_suggestions,             *)
(* get_recipe_suggestions, get_restaurant_suggestions and create_plan,     *)
(* with their *_impl functions.                                            *)
(***************************************************************************)
Queries == {"plan a day"}

Ages == {None, <<0>>, <<3>>}

IndoorPreferences == {None, <<TRUE>>, <<FALSE>>}

Cuisines == {None, <<"">>, <<"Korean">>}

MealTypes == {None, <<"">>, <<"dinner">>}

Locations == {None, <<"">>, <<"Seattle">>}

Outcomes == {"returns", "raises"}

\* Result strings the model passes to create_plan.
T_Activities == "{\"activities\": [{\"name\": \"Zoo\"}]}"

T_Recipes == "{\"recipes\": [{\"name\": \"Bibimbap\"}]}"

T_Restaurants == "{\"restaurants\": [{\"name\": \"Cafe\"}]}"

T_EmptyList == "[]"

T_Null == "null"

T_Empty == ""

T_Prose == "Visit the zoo in the morning"

T_WrappedActivities == "Here you go: {\"activities\": [{\"name\": \"Zoo\"}]} Enjoy!"

T_WrappedRecipes == "Here you go: {\"recipes\": [{\"name\": \"Bibimbap\"}]} Enjoy!"

T_WrappedRestaurants == "Here you go: {\"restaurants\": [{\"name\": \"Cafe\"}]} Enjoy!"

T_BrokenActivities == "Here you go: {\"activities\": [{name: Zoo}]} Enjoy!"

T_BrokenObject == "{\"activities\": [{name: Zoo}]}"

ResultTexts ==
    {T_Activities, T_EmptyList, T_Null, T_Empty, T_Prose, T_WrappedActivities,
     T_WrappedRecipes, T_WrappedRestaurants, T_BrokenActivities}

ResultArguments == {None} \cup {<<text>> : text \in ResultTexts}

\* A decoded JSON container: its type, its number of members, its text.
JsonValue(type, size, text) == [type |-> type, size |-> size, text |-> text]

\* The dict {"content": raw}.
ContentDict(raw) == JsonValue("content", 1, raw)

\* json.loads: ok with the decoded value (None for null), or JSONDecodeError.
json_loads(text) ==
    CASE text \in {T_Activities, T_Recipes, T_Restaurants} ->
            [ok |-> TRUE, value |-> <<JsonValue("object", 1, text)>>]
      [] text = T_EmptyList -> [ok |-> TRUE, value |-> <<JsonValue("array", 0, text)>>]
      [] text = T_Null      -> [ok |-> TRUE, value |-> None]
      [] OTHER              -> [ok |-> FALSE, value |-> None]

\* re.search(r'\{\s*"<key>"\s*:\s*\[.*?\]\s*\}', text, re.DOTALL): the match's
\* group(0), or None.
re_search(key, text) ==
    CASE key = "activities" /\ text \in {T_Activities, T_WrappedActivities} ->
            <<T_Activities>>
      [] key = "activities" /\ text = T_BrokenActivities -> <<T_BrokenObject>>
      [] key = "recipes" /\ text \in {T_Recipes, T_WrappedRecipes} -> <<T_Recipes>>
      [] key = "restaurants" /\ text \in {T_Restaurants, T_WrappedRestaurants} ->
            <<T_Restaurants>>
      [] OTHER -> None

PatternKey(k) ==
    CASE k = "activity_results" -> "activities"
      [] k = "culinary_results" -> "recipes"
      [] OTHER                  -> "restaurants"

\* Python truthiness of an optional string and of an optional decoded value.
truthy_str(opt) == opt # None /\ opt[1] # ""

truthy(opt) == opt # None /\ opt[1].size > 0

\* Mutation of parse_specialist_results: text with no JSON in it is dropped.
parse_specialist_results_drop(key, argument) ==
    IF ~truthy_str(argument) THEN None
    ELSE LET text == argument[1]
             direct == json_loads(text)
             json_matches == re_search(key, text)
         IN  IF direct.ok THEN direct.value
             ELSE IF json_matches # None /\ json_loads(json_matches[1]).ok
                  THEN json_loads(json_matches[1]).value
                  ELSE None

\* create_plan's handling of one result parameter: strict parse, then the
\* regex extraction, then the {"content": raw} wrap.
parse_specialist_results(key, argument) ==
    IF ~truthy_str(argument) THEN None
    ELSE LET text == argument[1]
             direct == json_loads(text)
             json_matches == re_search(key, text)
         IN  IF direct.ok THEN direct.value
             ELSE IF json_matches # None
                  THEN IF json_loads(json_matches[1]).ok
                       THEN json_loads(json_matches[1]).value
                       ELSE <<ContentDict(text)>>
                  ELSE <<ContentDict(text)>>

\* What a specialist is run on: a query string (kept as the pieces that are
\* concatenated), or the JSON text of planner_input.
QueryInput(pieces) == [kind |-> "query", text |-> pieces, results |-> NoResults]

JsonInput(query, dicts) == [kind |-> "json", text |-> <<query>>, results |-> dicts]

SpecialistRun(agent, input, raised) == [agent |-> agent, input |-> input, raised |-> raised]

SpecialistResult(agent) ==
    [error |-> None, content |-> <<"answer">>, agent |-> <<AgentName(agent)>>]

\* The specialists' runner functions: run(query) returns the specialist's
\* result or raises.
run_activity_agent(input, outcome) ==
    [raised |-> outcome = "raises",
     result |-> IF outcome = "raises" THEN NoResult ELSE SpecialistResult("activity")]

run_culinary_agent(input, outcome) ==
    [raised |-> outcome = "raises",
     result |-> IF outcome = "raises" THEN NoResult ELSE SpecialistResult("culinary")]

run_foodie_agent(input, outcome) ==
    [raised |-> outcome = "raises",
     result |-> IF outcome = "raises" THEN NoResult ELSE SpecialistResult("foodie")]

run_planner_agent(input, outcome) ==
    [raised |-> outcome = "raises",
     result |-> IF outcome = "raises" THEN NoResult ELSE SpecialistResult("planner")]

ErrorResult(msg) == [error |-> <<msg>>, content |-> None, agent |-> None]

get_activity_suggestions_impl(query, age, indoor_preference, outcome) ==
    LET enhanced_query ==
            <<query>>
            \o (IF age # None THEN <<" for a ", ToString(age[1]), "-year-old">> ELSE <<>>)
            \o (IF indoor_preference # None
                THEN <<IF indoor_preference[1] THEN " indoors" ELSE " outdoors">>
                ELSE <<>>)
        run == run_activity_agent(QueryInput(enhanced_query), outcome)
    IN  [runs |-> <<SpecialistRun("activity", QueryInput(enhanced_query), run.raised)>>,
         raised |-> FALSE,
         result |-> IF run.raised THEN ErrorResult("Error in Activity Agent: boom")
                    ELSE run.result]

get_recipe_suggestions_impl(query, cuisine, meal_type, outcome) ==
    LET enhanced_query ==
            <<query>>
            \o (IF truthy_str(cuisine) THEN <<" ", cuisine[1], " cuisine">> ELSE <<>>)
            \o (IF truthy_str(meal_type) THEN <<" for ", meal_type[1]>> ELSE <<>>)
        run == run_culinary_agent(QueryInput(enhanced_query), outcome)
    IN  [runs |-> <<SpecialistRun("culinary", QueryInput(enhanced_query), run.raised)>>,
         raised |-> FALSE,
         result |-> IF run.raised THEN ErrorResult("Error in Culinary Agent: boom")
                    ELSE run.result]

\* Mutation of get_restaurant_suggestions_impl: the location is left out.
get_restaurant_suggestions_impl_no_location(query, cuisine, location, outcome) ==
    LET enhanced_query ==
            <<query>>
            \o (IF truthy_str(cuisine) THEN <<" ", cuisine[1], " cuisine">> ELSE <<>>)
        run == run_foodie_agent(QueryInput(enhanced_query), outcome)
    IN  [runs |-> <<SpecialistRun("foodie", QueryInput(enhanced_query), run.raised)>>,
         raised |-> FALSE,
         result |-> IF run.raised THEN ErrorResult("Error in Foodie Agent: boom")
                    ELSE run.result]

get_restaurant_suggestions_impl(query, cuisine, location, outcome) ==
    LET enhanced_query ==
            <<query>>
            \o (IF truthy_str(cuisine) THEN <<" ", cuisine[1], " cuisine">> ELSE <<>>)
            \o (IF truthy_str(location) THEN <<" in ", location[1]>> ELSE <<>>)
        run == run_foodie_agent(QueryInput(enhanced_query), outcome)
    IN  [runs |-> <<SpecialistRun("foodie", QueryInput(enhanced_query), run.raised)>>,
         raised |-> FALSE,
         result |-> IF run.raised THEN ErrorResult("Error in Foodie Agent: boom")
                    ELSE run.result]

PlannerApology ==
    [error |-> <<"Error in Planner Agent: boom">>,
     content |-> <<"I apologize, but I encountered a technical issue while creating your plan.">>,
     agent |-> <<"Planner Agent">>]

\* Mutation of create_plan_impl: with results, the planner is run on the bare
\* query as well whether or not the first run raised.
create_plan_impl_always_retry(query, dicts, outcomes) ==
    LET with_results == \E k \in ResultKeys : truthy(dicts[k])
        planner_input == JsonInput(query, dicts)
        bare == QueryInput(<<query>>)
        first_input == IF with_results THEN planner_input ELSE bare
        first == run_planner_agent(first_input, outcomes[1])
        retried == with_results
        retry == run_planner_agent(bare, outcomes[2])
        last == IF retried THEN retry ELSE first
    IN  [runs |-> <<SpecialistRun("planner", first_input, first.raised)>>
                  \o (IF retried THEN <<SpecialistRun("planner", bare, retry.raised)>>
                      ELSE <<>>),
         raised |-> FALSE,
         result |-> IF last.raised THEN PlannerApology ELSE last.result]

(* create_plan_impl: with any truthy result, run the planner on the JSON   *)
(* of planner_input (the query and every result that is not None) and, if  *)
(* that raises, on the bare query; with none, on the bare query.  An       *)
(* exception of the last run gives the apology result.                     *)
create_plan_impl(query, dicts, outcomes) ==
    LET with_results == \E k \in ResultKeys : truthy(dicts[k])
        planner_input == JsonInput(query, dicts)
        bare == QueryInput(<<query>>)
        first_input == IF with_results THEN planner_input ELSE bare
        first == run_planner_agent(first_input, outcomes[1])
        retried == with_results /\ first.raised
        retry == run_planner_agent(bare, outcomes[2])
        last == IF retried THEN retry ELSE first
    IN  [runs |-> <<SpecialistRun("planner", first_input, first.raised)>>
                  \o (IF retried THEN <<SpecialistRun("planner", bare, retry.raised)>>
                      ELSE <<>>),
         raised |-> FALSE,
         result |-> IF last.raised THEN PlannerApology ELSE last.result]

CreatePlanFallback ==
    [error |-> None,
     content |-> <<"I apologize, but I encountered difficulties processing the specialist information. Please try again with simplified requirements.">>,
     agent |-> <<"Planner Agent">>]

\* The tool functions return json.dumps(result).
ToolOutput(impl) == <<"json", impl.result>>

ToolEnd(impl) == IF impl.raised THEN "raised" ELSE "returned"

get_activity_suggestions(query, age, indoor_preference, outcome) ==
    LET impl == get_activity_suggestions_impl(query, age, indoor_preference, outcome)
    IN  /\ co_pc = "idle"
        /\ co_call' = [NoDispatch EXCEPT !.tool = "get_activity_suggestions", !.query = query,
                                         !.age = age, !.indoor_preference = indoor_preference]
        /\ specialist_runs' = impl.runs
        /\ co_output' = ToolOutput(impl)
        /\ co_pc' = ToolEnd(impl)
        /\ UNCHANGED outsideCoord

get_recipe_suggestions(query, cuisine, meal_type, outcome) ==
    LET impl == get_recipe_suggestions_impl(query, cuisine, meal_type, outcome)
    IN  /\ co_pc = "idle"
        /\ co_call' = [NoDispatch EXCEPT !.tool = "get_recipe_suggestions", !.query = query,
                                         !.cuisine = cuisine, !.meal_type = meal_type]
        /\ specialist_runs' = impl.runs
        /\ co_output' = ToolOutput(impl)
        /\ co_pc' = ToolEnd(impl)
        /\ UNCHANGED outsideCoord

get_restaurant_suggestions(query, cuisine, location, outcome) ==
    LET impl == get_restaurant_suggestions_impl(query, cuisine, location, outcome)
    IN  /\ co_pc = "idle"
        /\ co_call' = [NoDispatch EXCEPT !.tool = "get_restaurant_suggestions", !.query = query,
                                         !.cuisine = cuisine, !.location = location]
        /\ specialist_runs' = impl.runs
        /\ co_output' = ToolOutput(impl)
        /\ co_pc' = ToolEnd(impl)
        /\ UNCHANGED outsideCoord

\* create_plan: parse the three result strings, call create_plan_impl; if
\* that raised, call it again with the query alone, and if that raised too
\* return the fallback result.
create_plan(query, results, outcomes) ==
    LET dicts == [k \in ResultKeys |-> parse_specialist_results(PatternKey(k), results[k])]
        impl == create_plan_impl(query, dicts, outcomes)
        again == create_plan_impl(query, NoResults, outcomes)
        done == IF ~impl.raised THEN impl
                ELSE [runs |-> impl.runs \o again.runs,
                      raised |-> FALSE,
                      result |-> IF again.raised THEN CreatePlanFallback
                                 ELSE again.result]
    IN  /\ co_pc = "idle"
        /\ co_call' = [NoDispatch EXCEPT !.tool = "create_plan", !.query = query,
                                         !.results = results]
        /\ specialist_runs' = done.runs
        /\ co_output' = ToolOutput(done)
        /\ co_pc' = ToolEnd(done)
        /\ UNCHANGED outsideCoord

\* The Runner hands the tool's output to the model; the next tool call
\* starts afresh.
ToolOutputTaken ==
    /\ co_pc = "returned"
    /\ co_pc' = "idle"
    /\ co_call' = NoDispatch
    /\ specialist_runs' = <<>>
    /\ co_output' = NoOutput
    /\ UNCHANGED outsideCoord

InitCoord ==
    /\ InitSession

NextCoord ==
    \/ \E q \in Queries, age \in Ages, indoor \in IndoorPreferences, o \in Outcomes :
            get_activity_suggestions(q, age, indoor, o)
    \/ \E q \in Queries, cuisine \in Cuisines, meal \in MealTypes, o \in Outcomes :
            get_recipe_suggestions(q, cuisine, meal, o)
    \/ \E q \in Queries, cuisine \in Cuisines, loc \in Locations, o \in Outcomes :
            get_restaurant_suggestions(q, cuisine, loc, o)
    \/ \E q \in Queries, results \in [ResultKeys -> ResultArguments],
          outcomes \in [1..2 -> Outcomes] :
            create_plan(q, results, outcomes)
    \/ ToolOutputTaken

SpecCoord == InitCoord /\ [][NextCoord]_vars

\* The result string given for parameter k, when the call is a create_plan.
Given(k) == co_call.results[k]

NonEmpty(k) == truthy_str(Given(k))

Malformed(k) == NonEmpty(k) /\ ~json_loads(Given(k)[1]).ok

WellFormed(k) == NonEmpty(k) /\ json_loads(Given(k)[1]).ok

PlanReturned == co_pc = "returned" /\ co_call.tool = "create_plan"

(***************************************************************************)
(* C8: a dispatch tool never raises: when a specialist invocation raises,  *)
(* the exception is caught and the tool's result, returned to the model,   *)
(* contains an error string.                                               *)
(***************************************************************************)
C8_SpecialistFailureReturnedAsError ==
    /\ co_pc # "raised"
    /\ co_pc = "returned" =>
          ((\E i \in 1..Len(specialist_runs) : specialist_runs[i].raised)
                => co_output[2].error # None)

(***************************************************************************)
(* C9: no specialist input to create_plan is discarded: for every          *)
(* non-empty result string given, the planner run whose result is returned *)
(* received data for that specialist, whatever the string parses to and    *)
(* also when the first planner invocation fails.                           *)
(***************************************************************************)
C9_NoSpecialistInputDiscarded ==
    PlanReturned =>
        \A k \in ResultKeys :
            NonEmpty(k) =>
                specialist_runs[Len(specialist_runs)].input.results[k] # None

(***************************************************************************)
(* C10: when one result string given to create_plan is malformed JSON and  *)
(* another is well-formed, the planner is run on a JSON input in which the *)
(* malformed one appears as its regex-extracted value or as                *)
(* {content: raw}, and the call does not fail: it returns, without an      *)
(* error when that planner run returns.                                    *)
(***************************************************************************)
Extracted(k) ==
    LET json_matches == re_search(PatternKey(k), Given(k)[1])
    IN  IF json_matches # None /\ json_loads(json_matches[1]).ok
        THEN json_loads(json_matches[1]).value
        ELSE None

MixedCase(k) == Malformed(k) /\ \E y \in ResultKeys \ {k} : WellFormed(y)

C10_MalformedInputWrapped ==
    (co_pc # "idle" /\ co_call.tool = "create_plan") =>
        \A k \in ResultKeys :
            MixedCase(k) =>
                /\ co_pc = "returned"
                /\ specialist_runs[1].input.kind = "json"
                /\ specialist_runs[1].input.results[k] =
                        (IF Extracted(k) # None THEN Extracted(k)
                         ELSE <<ContentDict(Given(k)[1])>>)
                /\ ~specialist_runs[1].raised => co_output[2].error = None

C10_Witness ==
    /\ PlanReturned
    /\ \E k \in ResultKeys :
          /\ MixedCase(k)
          /\ Extracted(k) = None
          /\ specialist_runs[1].input.results[k] = <<ContentDict(Given(k)[1])>>
          /\ co_output[2].error = None

(***************************************************************************)
(* The planner's scheduling tool: PlannerAgent._optimize_schedule with     *)
(* utils.get_travel_time.  Time strings are sequences of characters.       *)
(***************************************************************************)
MaxActivities == 3      \* activities in one optimize_schedule call

DEFAULT_DRIVING_MINUTES == 30   \* get_travel_time's estimate when no entry matches
FALLBACK_TRAVEL_MINUTES == 15   \* travel_info.get("driving_minutes", 15)
DEFAULT_DURATION_MINUTES == 60  \* activity.get("duration_minutes", 60)
MINUTES_PER_HOUR == 60

Digits == <<"0", "1", "2", "3", "4", "5", "6", "7", "8", "9">>

IsDigit(c) == \E d \in 1..10 : Digits[d] = c

DigitValue(c) == (CHOOSE d \in 1..10 : Digits[d] = c) - 1

\* str.split(sep)
RECURSIVE split(_, _)
split(s, sep) ==
    IF \A i \in 1..Len(s) : s[i] # sep THEN <<s>>
    ELSE LET i == CHOOSE j \in 1..Len(s) : s[j] = sep /\ \A k \in 1..(j - 1) : s[k] # sep
         IN  <<SubSeq(s, 1, i - 1)>> \o split(SubSeq(s, i + 1, Len(s)), sep)

\* int(text) of a string of decimal digits; anything else is a ValueError.
int_ok(text) == text # <<>> /\ \A i \in 1..Len(text) : IsDigit(text[i])

RECURSIVE int(_)
int(text) ==
    IF text = <<>> THEN 0
    ELSE int(SubSeq(text, 1, Len(text) - 1)) * 10 + DigitValue(text[Len(text)])

\* hour, minute = map(int, text.split(':')); hour * 60 + minute
parse_hhmm(text) ==
    LET parts == split(text, ":")
    IN  IF Len(parts) = 2 /\ int_ok(parts[1]) /\ int_ok(parts[2])
        THEN [ok |-> TRUE, minutes |-> int(parts[1]) * MINUTES_PER_HOUR + int(parts[2])]
        ELSE [ok |-> FALSE, minutes |-> 0]

RECURSIVE decimal(_)
decimal(n) ==
    IF n < 10 THEN <<Digits[n + 1]>>
    ELSE decimal(n \div 10) \o <<Digits[(n % 10) + 1]>>

\* f"{n:02d}"
pad2(n) == IF n < 10 THEN <<"0">> \o decimal(n) ELSE decimal(n)

\* divmod(t, 60) rendered as f"{hour:02d}:{minute:02d}"
format_hhmm(t) ==
    pad2(t \div MINUTES_PER_HOUR) \o <<":">> \o pad2(t % MINUTES_PER_HOUR)

TravelEntry(origin, destination, minutes) ==
    [origin |-> origin, destination |-> destination, driving_minutes |-> minutes]

\* get_travel_time: the first entry matching the pair ignoring case, else
\* the default estimate.
Matches(entry, origin, destination) ==
    lower(entry.origin) = lower(origin) /\ lower(entry.destination) = lower(destination)

get_travel_time(travel_times, origin, destination) ==
    LET hits == {i \in 1..Len(travel_times) : Matches(travel_times[i], origin, destination)}
    IN  IF hits # {}
        THEN travel_times[CHOOSE i \in hits : \A j \in hits : i <= j]
        ELSE TravelEntry(origin, destination, <<DEFAULT_DRIVING_MINUTES>>)

\* dict.get(key, default) on an optional field.
get(field, default) == IF field # None THEN field[1] ELSE default

\* Mutation of activity_start: the travel time is not added.
activity_start_no_travel(current_time, travel_time) == current_time

activity_start(current_time, travel_time) == current_time + travel_time

\* Mutation of next_current_time: the next leg departs when the activity
\* starts.
next_current_time_start(activity_start_time, activity_end_time) == activity_start_time

\* current_time = activity_end_time
next_current_time(activity_start_time, activity_end_time) == activity_end_time

\* The for loop of _optimize_schedule from the given current_time and
\* last_location; end_time_minutes is None or <<minutes>>.
RECURSIVE schedule_from(_, _, _, _, _)
schedule_from(activities, travel_times, current_time, last_location, end_time_minutes) ==
    IF activities = <<>> THEN <<>>
    ELSE LET activity == Head(activities)
             location == get(activity.location, "")
             travel_info == get_travel_time(travel_times, last_location, location)
             travel_time == get(travel_info.driving_minutes, FALLBACK_TRAVEL_MINUTES)
             activity_start_time == activity_start(current_time, travel_time)
             activity_end_time ==
                 activity_start_time + get(activity.duration_minutes, DEFAULT_DURATION_MINUTES)
         IN  IF /\ end_time_minutes # None
                /\ end_time_minutes[1] # 0
                /\ activity_end_time > end_time_minutes[1]
             THEN <<>>
             ELSE <<[activity_name |-> get(activity.name, "Unknown Activity"),
                     location |-> location,
                     start_time |-> format_hhmm(activity_start_time),
                     end_time |-> format_hhmm(activity_end_time),
                     travel_time_minutes |-> travel_time]>>
                  \o schedule_from(Tail(activities), travel_times,
                                   next_current_time(activity_start_time,
                                                     activity_end_time),
                                   location, end_time_minutes)

_optimize_schedule(activities, start_time, end_time, travel_times) ==
    LET start == parse_hhmm(start_time)
        bounded == end_time # None /\ end_time[1] # <<>>
        end == IF bounded THEN parse_hhmm(end_time[1]) ELSE [ok |-> TRUE, minutes |-> 0]
    IN  IF ~start.ok
        THEN [error |-> <<"Invalid start time format. Please use HH:MM format.">>,
              optimized_schedule |-> <<>>]
        ELSE IF ~end.ok
        THEN [error |-> <<"Invalid end time format. Please use HH:MM format.">>,
              optimized_schedule |-> <<>>]
        ELSE [error |-> None,
              optimized_schedule |->
                  schedule_from(activities, travel_times, start.minutes, HOME,
                                IF bounded THEN <<end.minutes>> ELSE None)]

ActA == [name |-> <<"A">>, location |-> <<"X">>, duration_minutes |-> <<60>>]

ActB == [name |-> <<"B">>, location |-> <<"Y">>, duration_minutes |-> <<30>>]

ActC == [name |-> None, location |-> <<"x">>, duration_minutes |-> None]

ActivityLists == UNION {[1..n -> {ActA, ActB, ActC}] : n \in 0..MaxActivities}

StartTimes ==
    {<<"0", "9", ":", "0", "0">>, <<"2", "3", ":", "3", "0">>,
     <<"n", "i", "n", "e">>, <<"9", ":", "0", "0", ":", "0", "0">>}

EndTimes ==
    {None, <<<<>>>>, <<<<"0", "0", ":", "0", "0">>>>, <<<<"1", "0", ":", "1", "5">>>>,
     <<<<"1", "1", ":", "0", "0">>>>, <<<<"l", "a", "t", "e">>>>}

Places == <<HOME, "X", "Y">>

\* Travel-time data: every pair at 15 minutes; no data; partial data with
\* an entry that has no driving_minutes.
TT_AllFifteen ==
    [i \in 1..9 |-> TravelEntry(Places[((i - 1) \div 3) + 1], Places[((i - 1) % 3) + 1], <<15>>)]

TT_Empty == <<>>

TT_Partial == <<TravelEntry("home (sunnyvale)", "X", <<20>>), TravelEntry("X", "Y", None)>>

TravelTables == {TT_AllFifteen, TT_Empty, TT_Partial}

OptimizeSchedule ==
    /\ pl_pc = "idle"
    /\ pl_result' = _optimize_schedule(pl_input.activities, pl_input.start_time,
                                       pl_input.end_time, pl_input.travel_times)
    /\ pl_pc' = "returned"
    /\ UNCHANGED <<pl_input, outsidePlanner>>

InitPlanner ==
    /\ FixtureIdle
    /\ RunnerIdle
    /\ MainIdle
    /\ AgentIdle
    /\ CoordIdle
    /\ agent_messages = <<>>
    /\ last_call = NoCall
    /\ pl_pc = "idle"
    /\ pl_input \in [activities : ActivityLists, start_time : StartTimes,
                     end_time : EndTimes, travel_times : TravelTables]
    /\ pl_result = NoPlannerResult

NextPlanner == OptimizeSchedule

SpecPlanner == InitPlanner /\ [][NextPlanner]_vars

Scheduled == pl_pc = "returned" /\ pl_result.error = None

Schedule == pl_result.optimized_schedule

\* Minutes of a formatted time of the schedule.
Minutes(text) == parse_hhmm(text).minutes

\* The location the i-th leg starts from, and the time it starts at.
LegOrigin(i) == IF i = 1 THEN HOME ELSE Schedule[i - 1].location

LegDeparture(i) ==
    IF i = 1 THEN Minutes(pl_input.start_time) ELSE Minutes(Schedule[i - 1].end_time)

HasEntry(origin, destination) ==
    \E i \in 1..Len(pl_input.travel_times) :
        Matches(pl_input.travel_times[i], origin, destination)

(***************************************************************************)
(* C11: each scheduled activity starts at the previous end (or the start   *)
(* time) plus the travel time from the prior location and ends after its   *)
(* duration; for [A at X 60 min, B at Y 30 min], start 09:00 and a lookup  *)
(* returning 15 minutes for every pair the schedule is A 09:15-10:15,      *)
(* B 10:30-11:00.                                                          *)
(***************************************************************************)
C11_Example ==
    /\ pl_input.activities = <<ActA, ActB>>
    /\ pl_input.start_time = <<"0", "9", ":", "0", "0">>
    /\ pl_input.end_time = None
    /\ \A o \in 1..3, d \in 1..3 :
          get_travel_time(pl_input.travel_times, Places[o], Places[d]).driving_minutes
              = <<15>>

C11_ScheduleTimes ==
    Scheduled =>
        /\ \A i \in 1..Len(Schedule) :
              /\ Minutes(Schedule[i].start_time)
                    = LegDeparture(i) + Schedule[i].travel_time_minutes
              /\ Minutes(Schedule[i].end_time)
                    = Minutes(Schedule[i].start_time)
                      + get(pl_input.activities[i].duration_minutes, DEFAULT_DURATION_MINUTES)
        /\ C11_Example =>
              /\ Len(Schedule) = 2
              /\ Schedule[1].activity_name = "A"
              /\ Schedule[1].start_time = <<"0", "9", ":", "1", "5">>
              /\ Schedule[1].end_time = <<"1", "0", ":", "1", "5">>
              /\ Schedule[2].activity_name = "B"
              /\ Schedule[2].start_time = <<"1", "0", ":", "3", "0">>
              /\ Schedule[2].end_time = <<"1", "1", ":", "0", "0">>

C11_Witness == Scheduled /\ C11_Example /\ Len(Schedule) = 2

(***************************************************************************)
(* C12: with an end_time bound the schedule is the prefix of the input     *)
(* list that ends before the first activity whose computed end time        *)
(* exceeds the bound: entries follow the input order, none ends after the  *)
(* bound, and the first omitted activity would end after it.               *)
(***************************************************************************)
Bounded == pl_input.end_time # None /\ pl_input.end_time[1] # <<>>

NextEnd ==
    LET i == Len(Schedule) + 1
        activity == pl_input.activities[i]
        travel_info == get_travel_time(pl_input.travel_times, LegOrigin(i),
                                       get(activity.location, ""))
    IN  LegDeparture(i) + get(travel_info.driving_minutes, FALLBACK_TRAVEL_MINUTES)
        + get(activity.duration_minutes, DEFAULT_DURATION_MINUTES)

C12_TruncatedPrefix ==
    (Scheduled /\ Bounded) =>
        LET bound == Minutes(pl_input.end_time[1])
        IN  /\ Len(Schedule) <= Len(pl_input.activities)
            /\ \A i \in 1..Len(Schedule) :
                  /\ Schedule[i].activity_name
                        = get(pl_input.activities[i].name, "Unknown Activity")
                  /\ Minutes(Schedule[i].end_time) <= bound
            /\ Len(Schedule) < Len(pl_input.activities) => NextEnd > bound

(***************************************************************************)
(* C13: when the travel-time data has no entry for the pair                *)
(* (last_location, activity location), the leg's travel time is the        *)
(* 15-minute default.                                                      *)
(***************************************************************************)
C13_MissingPairDefaultsTo15 ==
    Scheduled =>
        \A i \in 1..Len(Schedule) :
            ~HasEntry(LegOrigin(i), Schedule[i].location)
                => Schedule[i].travel_time_minutes = 15

\* C25: whenever an end_time bound is given to optimize_schedule, every entry
\* of the schedule ends at or before that bound, for every valid HH:MM bound
\* including 00:00.
C25_EveryEntryWithinBound ==
    (Scheduled /\ Bounded) =>
        \A i \in 1..Len(Schedule) :
            Minutes(Schedule[i].end_time) <= Minutes(pl_input.end_time[1])

\* C27: the schedule is chronologically ordered and non-overlapping: each
\* entry starts at or after the start time and at or after the previous
\* entry's end, ends at or after its start, and the first leg's travel is
\* measured from "Home (Sunnyvale)".
C27_ChronologicalNoOverlap ==
    Scheduled =>
        /\ \A i \in 1..Len(Schedule) :
              /\ Minutes(Schedule[i].start_time) >= Minutes(pl_input.start_time)
              /\ i > 1 => Minutes(Schedule[i].start_time)
                              >= Minutes(Schedule[i - 1].end_time)
              /\ Minutes(Schedule[i].end_time) >= Minutes(Schedule[i].start_time)
        /\ Schedule # <<>> =>
              Schedule[1].travel_time_minutes
                  = get(get_travel_time(pl_input.travel_times, "Home (Sunnyvale)",
                                        Schedule[1].location).driving_minutes,
                        FALLBACK_TRAVEL_MINUTES)

C27_Witness ==
    /\ Scheduled
    /\ Len(Schedule) = 3
    /\ pl_input.travel_times = TT_Partial
    /\ Schedule[1].travel_time_minutes = 20
    /\ Minutes(Schedule[3].start_time) > Minutes(Schedule[2].end_time)

(***************************************************************************)
(* C14: calling clear on a session twice in a row leaves an item count of  *)
(* 0 after each call, whatever the session held before; the second call    *)
(* raises no error and changes nothing.                                    *)
(***************************************************************************)
C14_ClearStep(sid) ==
    (last_call'.op = "clear_session" /\ last_call'.sid = sid) =>
        /\ get_item_count(agent_messages', sid) = 0
        /\ last_call'.ret = <<>>
        /\ \A other \in SessionIds \ {sid} :
              get_items(agent_messages', other, NoLimit)
                  = get_items(agent_messages, other, NoLimit)
        /\ last_call'.prev = "clear_session" =>
              /\ get_item_count(agent_messages, sid) = 0
              /\ agent_messages' = agent_messages

C14_ClearTwice == [][\A sid \in SessionIds : C14_ClearStep(sid)]_vars

C14_Witness ==
    /\ last_call.op = "clear_session"
    /\ last_call.prev = "clear_session"
    /\ get_item_count(agent_messages, last_call.sid) = 0
    /\ agent_messages # <<>>

(***************************************************************************)
(* C15: pop_item on a non-empty session removes and returns the most       *)
(* recently appended item and leaves the earlier items unchanged and in    *)
(* order; right after add_items([x]) it returns x and the sequence and the *)
(* count are those from before the add.                                    *)
(***************************************************************************)
C15_PopStep(sid) ==
    LET before == get_items(agent_messages, sid, NoLimit)
        after  == get_items(agent_messages', sid, NoLimit)
    IN  (last_call'.op = "pop_item" /\ last_call'.sid = sid /\ before # <<>>) =>
            /\ last_call'.ret = <<before[Len(before)]>>
            /\ after = SubSeq(before, 1, Len(before) - 1)
            /\ get_item_count(agent_messages', sid) = get_item_count(agent_messages, sid) - 1
            /\ (last_call'.prev = "add_items" /\ Len(last_call.arg) = 1) =>
                  /\ last_call'.ret = last_call.arg
                  /\ after \o last_call.arg = before

C15_PopReturnsLast == [][\A sid \in SessionIds : C15_PopStep(sid)]_vars

C15_Witness ==
    /\ last_call.op = "pop_item"
    /\ last_call.prev = "add_items"
    /\ last_call.ret # <<>>
    /\ get_item_count(agent_messages, last_call.sid) > 0

\* ---------------------------------------------------------------------------
\* Session listing (SpecMain)
\* ---------------------------------------------------------------------------

StoredSessionIds == {agent_messages[i].session_id : i \in 1..Len(agent_messages)}

Listed == pc = "done" /\ argv.list_sessions

\* C16: list_all_sessions returns one entry for every session id found in the
\* store; a failure while handling one id does not abort the listing: that id
\* is reported with an error field, and the other ids are enumerated with
\* their item counts.
C16_PerSessionFailureReported ==
    Listed =>
        /\ {e.session_id : e \in listing.sessions} = StoredSessionIds
        /\ Cardinality(listing.sessions) = Cardinality(StoredSessionIds)
        /\ \A e \in listing.sessions :
              IF listing.faults[e.session_id] # "none"
              THEN e.error # None
              ELSE /\ e.error = None
                   /\ e.message_count = <<get_item_count(agent_messages, e.session_id)>>

\* ---------------------------------------------------------------------------
\* The interactive loop's commands and failures (SpecMain)
\* ---------------------------------------------------------------------------

LineTaken == Len(lines_read') = Len(lines_read) + 1

TakenLine == lines_read'[Len(lines_read')]

C17_Step ==
    LineTaken =>
        /\ (TakenLine.line = "/clear" /\ pc' # "crashed") =>
              /\ TakenLine.branch = "clear"
              /\ get_items(agent_messages', argv.session_id, NoLimit) = <<>>
              /\ turn' = NoTurn
              /\ pc' = "prompt"
        /\ TakenLine.line # "/clear" => TakenLine.branch # "clear"

\* C17: in the interactive loop a line that is exactly /clear empties the
\* session's history, is not appended to it, starts no agent run, and leaves
\* the loop reading the next line; a line that is not exactly /clear is not
\* treated as the clear command.
C17_ExactClearCommand == [][C17_Step]_vars

\* C18: clear_session raising, during /clear or during --clear-session at
\* startup, is caught where it is called and the process continues; only a
\* configuration error ends the process.
C18_SessionFailureRecovered ==
    /\ pc # "crashed"
    /\ exit_code \notin {NotExited, 0} => ~check_environment(env)

FailedStatuses == {"append_error", "error", "max_turns"}

C19_Step ==
    (/\ turn' # turn
     /\ turn'.caller = "process_user_input"
     /\ turn'.status \in FailedStatuses) =>
        /\ pc' = "prompt"
        /\ current_agent' = current_agent
        /\ exit_code' = NotExited

\* C19: an exception raised while one user input is processed in the
\* interactive loop (appending to the session, running the agent, streaming
\* its output) ends only that turn: process_user_input returns, and the loop
\* reads the next input with the agent it had before.
C19_FailedTurnEndsOnlyThatTurn == [][C19_Step]_vars

C19_Witness ==
    /\ pc = "prompt"
    /\ turn.caller = "process_user_input"
    /\ turn.status = "error"
    /\ turn.calls > 0
    /\ Len(lines_read) < MaxInputs
    /\ current_agent = "Head Coordinator Agent"

C20_Step ==
    (argv.entry = "main" /\ ~env.api_key) =>
        /\ pc' = "exited"
        /\ exit_code' \notin {NotExited, 0}
        /\ current_agent = "none" /\ current_agent' = "none"
        /\ UNCHANGED <<agent_messages, listing, turn, lines_read>>

\* C20: with the API key variable absent, main exits with a nonzero status
\* before any session is created, cleared, listed or appended to and before
\* any agent is built, whatever flags are given.
C20_MissingKeyExitsFirst == [][C20_Step]_vars

C20_Witness ==
    /\ pc = "exited"
    /\ exit_code = 1
    /\ ~env.api_key
    /\ argv.list_sessions /\ argv.clear_session /\ argv.query # ""
    /\ agent_messages # <<>>

\* ---------------------------------------------------------------------------
\* Single-shot mode, failed turns and the listing's frame (SpecMain)
\* ---------------------------------------------------------------------------

\* C26: in single-shot mode with a valid environment the query is dispatched
\* to the coordinator's agent run exactly once, the content reported as the
\* final answer is the coordinator's result for that query, and the process
\* ends without reading further input.
C26_SingleShotDispatchedOnce ==
    (pc = "done" /\ turn.caller = "run_single_query") =>
        /\ turn.status \in {"completed", "max_turns", "error"}
        /\ turn.input = argv.query
        /\ turn.report \in {"answer", "apology"}
        /\ turn.status = "completed" => turn.content \in Answers
        /\ lines_read = <<>>
        /\ exit_code = 0

FailedAfterAppend ==
    turn.caller = "process_user_input" /\ turn.status \in {"error", "max_turns"}

\* C28: process_user_input appends the user item before the agent run starts
\* and never removes it: while the run is going on and after the turn has
\* failed, the session holds that user item, so a failed turn grows the
\* session by at least one user item.
C28_UserItemKeptOnFailure ==
    (turn.caller = "process_user_input" /\ turn.status \in {"running", "error", "max_turns"}) =>
        /\ Len(SessionItems) >= turn.base + 1
        /\ SessionItems[turn.base + 1] = UserItem(turn.input)

C28_Witness ==
    /\ FailedAfterAppend
    /\ pc = "prompt"
    /\ turn.base > 0
    /\ Len(SessionItems) = turn.base + 1

C29_Step ==
    (argv.entry = "main" /\ argv.list_sessions) =>
        /\ agent_messages' = agent_messages
        /\ pc' \in {"done", "exited"}
        /\ turn' = NoTurn
        /\ lines_read' = <<>>

\* C29: with --list-sessions main lists the sessions and returns without
\* changing any session: no item is added, popped or cleared, also when
\* --clear-session, --session-id or --query are given as well.
C29_ListingChangesNothing == [][C29_Step]_vars

C29_Witness ==
    /\ Listed
    /\ argv.clear_session /\ argv.query # ""
    /\ listing.sessions # {}
    /\ get_item_count(agent_messages, argv.session_id) > 0

\* ---------------------------------------------------------------------------
\* The dispatch tools' sub-queries and create_plan_impl's retries (SpecCoord)
\* ---------------------------------------------------------------------------

SuggestionTools ==
    {"get_activity_suggestions", "get_recipe_suggestions", "get_restaurant_suggestions"}

SuggestionReturned == co_pc = "returned" /\ co_call.tool \in SuggestionTools

\* The clause each structured parameter adds when it is supplied; an empty
\* string counts as not supplied.
AgeClause == IF co_call.age # None THEN <<" for a ", ToString(co_call.age[1]), "-year-old">> ELSE <<>>

IndoorClause ==
    CASE co_call.indoor_preference = <<TRUE>>  -> <<" indoors">>
      [] co_call.indoor_preference = <<FALSE>> -> <<" outdoors">>
      [] OTHER                                 -> <<>>

CuisineClause ==
    IF co_call.cuisine \notin {None, <<"">>} THEN <<" ", co_call.cuisine[1], " cuisine">> ELSE <<>>

MealTypeClause ==
    IF co_call.meal_type \notin {None, <<"">>} THEN <<" for ", co_call.meal_type[1]>> ELSE <<>>

LocationClause ==
    IF co_call.location \notin {None, <<"">>} THEN <<" in ", co_call.location[1]>> ELSE <<>>

NothingSupplied ==
    /\ co_call.age = None /\ co_call.indoor_preference = None
    /\ co_call.cuisine = None /\ co_call.meal_type = None /\ co_call.location = None

\* C24: each dispatch tool forwards to its specialist a sub-query that begins
\* with the original query and has one clause appended per structured
\* parameter supplied (age, indoor/outdoor, cuisine, meal type, location);
\* with no optional parameter the forwarded query is the original query.
C24_SubQueryEnriched ==
    SuggestionReturned =>
        LET forwarded == specialist_runs[1].input
        IN  /\ Len(specialist_runs) = 1
            /\ forwarded.kind = "query"
            /\ Head(forwarded.text) = co_call.query
            /\ forwarded.text =
                  <<co_call.query>> \o AgeClause \o IndoorClause \o CuisineClause
                  \o MealTypeClause \o LocationClause
            /\ NothingSupplied => forwarded.text = <<co_call.query>>

C24_Witness ==
    /\ SuggestionReturned
    /\ co_call.tool = "get_restaurant_suggestions"
    /\ specialist_runs[1].input.text
          = <<"plan a day", " ", "Korean", " cuisine", " in ", "Seattle">>

\* C30: create_plan_impl never raises and invokes the planner at most twice
\* per call: once with the aggregated JSON input and, only if that attempt
\* raises, once more with the bare query; if the last attempt raises too,
\* the result has error, content and agent fields.
C30_PlannerInvokedAtMostTwice ==
    (co_pc # "idle" /\ co_call.tool = "create_plan") =>
        LET n == Len(specialist_runs)
        IN  /\ co_pc = "returned"
            /\ n \in 1..2
            /\ \A i \in 1..n : specialist_runs[i].agent = "planner"
            /\ n = 2 => /\ specialist_runs[1].input.kind = "json"
                        /\ specialist_runs[1].raised
                        /\ specialist_runs[2].input = QueryInput(<<co_call.query>>)
            /\ (n = 1 /\ specialist_runs[1].input.kind = "json") => ~specialist_runs[1].raised
            /\ specialist_runs[n].raised =>
                  /\ co_output[2].error # None
                  /\ co_output[2].content # None
                  /\ co_output[2].agent # None

C30_Witness ==
    /\ PlanReturned
    /\ Len(specialist_runs) = 2
    /\ specialist_runs[2].raised
    /\ co_output[2].error # None

(***************************************************************************)
(* One coordinator turn under Runner.run: the agent built by               *)
(* build_coordinator_agent has four async function tools and               *)
(* ModelSettings(parallel_tool_calls=True), so one model response may      *)
(* carry several tool calls.  The Runner turns the calls of a response     *)
(* into coroutines that it awaits together; model inference resumes when   *)
(* all of them have returned.  A tool coroutine runs until it awaits its   *)
(* specialist (run_*_agent), where the event loop may start the next one.  *)
(***************************************************************************)
MaxParallelCalls == 2   \* tool calls in one response of the coordinator's model
MaxToolRounds == 2      \* responses with tool calls handled in one turn

DispatchTools ==
    {"get_activity_suggestions", "get_recipe_suggestions",
     "get_restaurant_suggestions", "create_plan"}

\* ModelSettings(parallel_tool_calls=True)
parallel_tool_calls == TRUE

\* How many tool calls one response may carry.
CallsPerResponse == IF parallel_tool_calls THEN 1..MaxParallelCalls ELSE {1}

ToolCallLists == UNION {[1..n -> DispatchTools] : n \in CallsPerResponse}

ToolTask(tool) == [tool |-> tool, status |-> "created"]

Running == {i \in 1..Len(rt_tasks) : rt_tasks[i].status = "running"}

\* run_coordinator_agent: Runner.run(starting_agent=agent, input=query, ...)
RunnerRun ==
    /\ rt_pc = "idle"
    /\ rt_pc' = "inference"
    /\ UNCHANGED <<rt_tasks, rt_rounds, outsideRunner>>

\* The model's response requests dispatch tools: one coroutine per call.
ModelRequestsTools(calls) ==
    /\ rt_pc = "inference"
    /\ rt_rounds < MaxToolRounds
    /\ rt_tasks' = [i \in 1..Len(calls) |-> ToolTask(calls[i])]
    /\ rt_pc' = "tools"
    /\ UNCHANGED <<rt_rounds, outsideRunner>>

\* The model's response is the final answer.
ModelAnswers ==
    /\ rt_pc = "inference"
    /\ rt_pc' = "finished"
    /\ UNCHANGED <<rt_tasks, rt_rounds, outsideRunner>>

\* A tool coroutine starts, in the order of the calls, and runs up to
\* `await run_*_agent(...)`: its specialist invocation is under way.
ToolTaskStarts(i) ==
    /\ rt_pc = "tools"
    /\ i \in 1..Len(rt_tasks)
    /\ rt_tasks[i].status = "created"
    /\ \A j \in 1..(i - 1) : rt_tasks[j].status # "created"
    /\ rt_tasks' = [rt_tasks EXCEPT ![i].status = "running"]
    /\ UNCHANGED <<rt_pc, rt_rounds, outsideRunner>>

\* The specialist invocation of a tool coroutine completes and the tool
\* returns json.dumps(result).
ToolTaskReturns(i) ==
    /\ rt_pc = "tools"
    /\ i \in 1..Len(rt_tasks)
    /\ rt_tasks[i].status = "running"
    /\ rt_tasks' = [rt_tasks EXCEPT ![i].status = "done"]
    /\ UNCHANGED <<rt_pc, rt_rounds, outsideRunner>>

\* Every tool call of the response has returned: the outputs go to the model.
ToolsGathered ==
    /\ rt_pc = "tools"
    /\ \A i \in 1..Len(rt_tasks) : rt_tasks[i].status = "done"
    /\ rt_tasks' = <<>>
    /\ rt_rounds' = rt_rounds + 1
    /\ rt_pc' = "inference"
    /\ UNCHANGED outsideRunner

InitRunner ==
    /\ InitSession

NextRunner ==
    \/ RunnerRun
    \/ \E calls \in ToolCallLists : ModelRequestsTools(calls)
    \/ ModelAnswers
    \/ \E i \in 1..MaxParallelCalls : ToolTaskStarts(i)
    \/ \E i \in 1..MaxParallelCalls : ToolTaskReturns(i)
    \/ ToolsGathered

SpecRunner == InitRunner /\ [][NextRunner]_vars

\* C21: within one coordinator turn specialist invocations never overlap:
\* each dispatch tool call is awaited to completion before another
\* specialist call starts or model inference resumes, even when the model
\* requests several dispatch tools in one response.
C21_SpecialistCallsSequential ==
    /\ Cardinality(Running) <= 1
    /\ rt_pc = "inference" => \A i \in 1..Len(rt_tasks) : rt_tasks[i].status = "done"

(***************************************************************************)
(* The fixture tools: utils.get_activities / get_recipes / get_restaurants *)
(* with the specialists' _search_* and _get_*_details methods.  Names,     *)
(* locations and cuisines are sequences of characters.                     *)
(***************************************************************************)
AGE_MIN_DEFAULT == 0    \* age_min: int = 0 and activity.get("age_min", 0)
AGE_MAX_DEFAULT == 99   \* age_max: int = 99 and activity.get("age_max", 99)

\* str.lower() on a sequence of characters.
LowerChar(c) ==
    CASE c = "B" -> "b"
      [] c = "O" -> "o"
      [] c = "T" -> "t"
      [] c = "Z" -> "z"
      [] OTHER   -> c

lower_text(s) == [i \in 1..Len(s) |-> LowerChar(s[i])]

\* needle in hay
contains(needle, hay) ==
    \E k \in 0..(Len(hay) - Len(needle)) : SubSeq(hay, k + 1, k + Len(needle)) = needle

\* Python truthiness of an optional string and of an optional number.
truthy_text(opt) == opt # None /\ opt[1] # <<>>

truthy_int(opt) == opt # None /\ opt[1] # 0

Price(n) == [i \in 1..n |-> "$"]

Activity(name, location, indoor, age_min, age_max) ==
    [name |-> name, location |-> location, indoor |-> indoor,
     age_min |-> age_min, age_max |-> age_max]

Recipe(name, cuisine, meal_type, prep_time) ==
    [name |-> name, cuisine |-> cuisine, meal_type |-> meal_type, prep_time |-> prep_time]

Restaurant(name, cuisine, location, price_range) ==
    [name |-> name, cuisine |-> cuisine, location |-> location,
     price_range |-> price_range]

\* The fixture files' content; a missing file loads as no records.
ActivitiesData ==
    <<Activity(<<"Z", "o", "o">>, <<<<"B", "a", "y">>>>, <<FALSE>>, <<2>>, <<12>>),
      Activity(<<"G", "y", "m">>, <<<<"b", "a", "y">>>>, <<TRUE>>, None, None),
      Activity(<<"A", "r", "t">>, None, None, <<4>>, <<5>>)>>

RecipesData ==
    <<Recipe(<<"Z", "o", "o">>, <<<<"T", "h", "a", "i">>>>, <<<<"t", "e", "a">>>>, <<30>>),
      Recipe(<<"B", "u", "n">>, <<<<"t", "h", "a", "i">>>>, None, <<10>>),
      Recipe(<<"O", "a", "t">>, None, <<<<"T", "e", "a">>>>, None)>>

RestaurantsData ==
    <<Restaurant(<<"Z", "o", "o">>, <<<<"T", "h", "a", "i">>>>, <<<<"B", "a", "y">>>>, <<Price(2)>>),
      Restaurant(<<"B", "a", "o">>, <<<<"t", "h", "a", "i">>>>, None, None),
      Restaurant(<<"O", "b", "a">>, None, <<<<"b", "a", "y">>>>, <<Price(3)>>)>>

\* Mutation of activity_filters: an omitted indoor preference filters for
\* outdoor activities.
activity_filters_indoor_default(age_min, age_max, indoor, location) ==
    [age_min |-> IF get(age_min, AGE_MIN_DEFAULT) > 0 THEN age_min ELSE None,
     age_max |-> IF get(age_max, AGE_MAX_DEFAULT) < 99 THEN age_max ELSE None,
     indoor |-> IF indoor # None THEN indoor ELSE <<FALSE>>,
     location |-> IF truthy_text(location) THEN location ELSE None]

\* _search_activities: the filters dict (a key that is absent is None).
activity_filters(age_min, age_max, indoor, location) ==
    [age_min |-> IF get(age_min, AGE_MIN_DEFAULT) > 0 THEN age_min ELSE None,
     age_max |-> IF get(age_max, AGE_MAX_DEFAULT) < 99 THEN age_max ELSE None,
     indoor |-> indoor,
     location |-> IF truthy_text(location) THEN location ELSE None]

\* _search_recipes: the filters dict.
recipe_filters(cuisine, meal_type, max_prep_time) ==
    [cuisine |-> IF truthy_text(cuisine) THEN cuisine ELSE None,
     meal_type |-> IF truthy_text(meal_type) THEN meal_type ELSE None,
     max_prep_time |-> IF truthy_int(max_prep_time) THEN max_prep_time ELSE None]

\* _search_restaurants: the filters dict.
restaurant_filters(cuisine, location, price_range) ==
    [cuisine |-> IF truthy_text(cuisine) THEN cuisine ELSE None,
     location |-> IF truthy_text(location) THEN location ELSE None,
     price_range |-> IF truthy_int(price_range) THEN price_range ELSE None]

\* filters[key].lower() not in record.get(key, "").lower()
text_mismatch(filter, field) ==
    filter # None /\ ~contains(lower_text(filter[1]), lower_text(get(field, <<>>)))

get_activities(activities, filters) ==
    IF \A k \in DOMAIN filters : filters[k] = None THEN activities
    ELSE SelectSeq(activities, LAMBDA activity :
            ~ \/ filters.age_min # None
                    /\ get(activity.age_min, AGE_MIN_DEFAULT) > filters.age_min[1]
              \/ filters.age_max # None
                    /\ get(activity.age_max, AGE_MAX_DEFAULT) < filters.age_max[1]
              \/ filters.indoor # None /\ activity.indoor # filters.indoor
              \/ text_mismatch(filters.location, activity.location))

get_recipes(recipes, filters) ==
    IF \A k \in DOMAIN filters : filters[k] = None THEN recipes
    ELSE SelectSeq(recipes, LAMBDA recipe :
            ~ \/ text_mismatch(filters.cuisine, recipe.cuisine)
              \/ text_mismatch(filters.meal_type, recipe.meal_type)
              \/ filters.max_prep_time # None
                    /\ get(recipe.prep_time, 0) > filters.max_prep_time[1])

get_restaurants(restaurants, filters) ==
    IF \A k \in DOMAIN filters : filters[k] = None THEN restaurants
    ELSE SelectSeq(restaurants, LAMBDA restaurant :
            ~ \/ text_mismatch(filters.cuisine, restaurant.cuisine)
              \/ text_mismatch(filters.location, restaurant.location)
              \/ filters.price_range # None
                    /\ Len(get(restaurant.price_range, Price(1))) > filters.price_range[1])

\* The simplified records the search tools return.
simplified_activity(activity) ==
    [name |-> activity.name, location |-> get(activity.location, <<>>),
     indoor |-> get(activity.indoor, FALSE)]

simplified_recipe(recipe) ==
    [name |-> recipe.name, cuisine |-> get(recipe.cuisine, <<>>),
     meal_type |-> get(recipe.meal_type, <<>>), prep_time |-> get(recipe.prep_time, 0)]

simplified_restaurant(restaurant) ==
    [name |-> restaurant.name, cuisine |-> get(restaurant.cuisine, <<>>),
     location |-> get(restaurant.location, <<>>),
     price_range |-> get(restaurant.price_range, Price(1))]

ListResult(items) == [kind |-> "list", items |-> items]

_search_activities(data, age_min, age_max, indoor, location) ==
    LET activities == get_activities(data, activity_filters(age_min, age_max, indoor, location))
    IN  ListResult([i \in 1..Len(activities) |-> simplified_activity(activities[i])])

_search_recipes(data, cuisine, meal_type, max_prep_time) ==
    LET recipes == get_recipes(data, recipe_filters(cuisine, meal_type, max_prep_time))
    IN  ListResult([i \in 1..Len(recipes) |-> simplified_recipe(recipes[i])])

_search_restaurants(data, cuisine, location, price_range) ==
    LET restaurants == get_restaurants(data, restaurant_filters(cuisine, location, price_range))
    IN  ListResult([i \in 1..Len(restaurants) |-> simplified_restaurant(restaurants[i])])

\* Mutation of name_matches: the requested name may be a part of the name.
name_matches_partial(record_name, requested) ==
    contains(lower_text(requested), lower_text(record_name))

\* record["name"].lower() == requested.lower()
name_matches(record_name, requested) == lower_text(record_name) = lower_text(requested)

\* _get_*_details: the first record whose name matches, else the error
\* payload f"{Entity} '{name}' not found".
get_details(entity, data, requested) ==
    LET hits == {i \in 1..Len(data) : name_matches(data[i].name, requested)}
    IN  IF hits # {}
        THEN [kind |-> "record", items |-> <<data[CHOOSE i \in hits : \A j \in hits : i <= j]>>]
        ELSE [kind |-> "error", items |-> <<entity, " '", requested, "' not found">>]

Words ==
    {<<>>, <<"b", "a">>, <<"B", "A", "Y">>, <<"x">>, <<"T", "H">>, <<"t", "e", "a">>}

TextArguments == {None} \cup {<<w>> : w \in Words}

DetailNames ==
    {<<"Z", "o", "o">>, <<"z", "O", "O">>, <<"Z", "o">>, <<"o">>, <<>>,
     <<"Z", "o", "o", "s">>, <<"b", "a", "o">>, <<"O", "A", "T">>}

AgeMinArguments == {None, <<0>>, <<3>>}

AgeMaxArguments == {None, <<99>>, <<5>>}

IndoorArguments == {None, <<TRUE>>, <<FALSE>>}

PrepTimeArguments == {None, <<0>>, <<20>>}

PriceArguments == {None, <<0>>, <<2>>}

FixtureCall(tool, data, args) == [tool |-> tool, data |-> data, args |-> args]

SearchActivities(data, age_min, age_max, indoor, location) ==
    /\ fx_pc = "idle"
    /\ fx_call' = FixtureCall("search_activities", data,
                              [age_min |-> age_min, age_max |-> age_max,
                               indoor |-> indoor, location |-> location])
    /\ fx_result' = _search_activities(data, age_min, age_max, indoor, location)
    /\ fx_pc' = "returned"
    /\ UNCHANGED outsideFixture

SearchRecipes(data, cuisine, meal_type, max_prep_time) ==
    /\ fx_pc = "idle"
    /\ fx_call' = FixtureCall("search_recipes", data,
                              [cuisine |-> cuisine, meal_type |-> meal_type,
                               max_prep_time |-> max_prep_time])
    /\ fx_result' = _search_recipes(data, cuisine, meal_type, max_prep_time)
    /\ fx_pc' = "returned"
    /\ UNCHANGED outsideFixture

SearchRestaurants(data, cuisine, location, price_range) ==
    /\ fx_pc = "idle"
    /\ fx_call' = FixtureCall("search_restaurants", data,
                              [cuisine |-> cuisine, location |-> location,
                               price_range |-> price_range])
    /\ fx_result' = _search_restaurants(data, cuisine, location, price_range)
    /\ fx_pc' = "returned"
    /\ UNCHANGED outsideFixture

GetActivityDetails(data, activity_name) ==
    /\ fx_pc = "idle"
    /\ fx_call' = FixtureCall("get_activity_details", data, [name |-> activity_name])
    /\ fx_result' = get_details("Activity", data, activity_name)
    /\ fx_pc' = "returned"
    /\ UNCHANGED outsideFixture

GetRecipeDetails(data, recipe_name) ==
    /\ fx_pc = "idle"
    /\ fx_call' = FixtureCall("get_recipe_details", data, [name |-> recipe_name])
    /\ fx_result' = get_details("Recipe", data, recipe_name)
    /\ fx_pc' = "returned"
    /\ UNCHANGED outsideFixture

GetRestaurantDetails(data, restaurant_name) ==
    /\ fx_pc = "idle"
    /\ fx_call' = FixtureCall("get_restaurant_details", data, [name |-> restaurant_name])
    /\ fx_result' = get_details("Restaurant", data, restaurant_name)
    /\ fx_pc' = "returned"
    /\ UNCHANGED outsideFixture

InitFixture ==
    /\ InitSession

NextFixture ==
    \/ \E data \in {ActivitiesData, <<>>}, age_min \in AgeMinArguments,
          age_max \in AgeMaxArguments, indoor \in IndoorArguments,
          location \in TextArguments :
            SearchActivities(data, age_min, age_max, indoor, location)
    \/ \E data \in {RecipesData, <<>>}, cuisine \in TextArguments,
          meal_type \in TextArguments, max_prep_time \in PrepTimeArguments :
            SearchRecipes(data, cuisine, meal_type, max_prep_time)
    \/ \E data \in {RestaurantsData, <<>>}, cuisine \in TextArguments,
          location \in TextArguments, price_range \in PriceArguments :
            SearchRestaurants(data, cuisine, location, price_range)
    \/ \E data \in {ActivitiesData, <<>>}, name \in DetailNames :
            GetActivityDetails(data, name)
    \/ \E data \in {RecipesData, <<>>}, name \in DetailNames :
            GetRecipeDetails(data, name)
    \/ \E data \in {RestaurantsData, <<>>}, name \in DetailNames :
            GetRestaurantDetails(data, name)

SpecFixture == InitFixture /\ [][NextFixture]_vars

SearchTools == {"search_activities", "search_recipes", "search_restaurants"}

DetailTools == {"get_activity_details", "get_recipe_details", "get_restaurant_details"}

\* A text filter is satisfied when it is left out (or empty) or when it
\* occurs in the record's field, ignoring case.
TextWanted(argument, field) ==
    \/ argument \in {None, <<<<>>>>}
    \/ contains(lower_text(argument[1]), lower_text(get(field, <<>>)))

\* A record satisfies every filter the call supplied.
Wanted(r) ==
    LET a == fx_call.args
    IN  CASE fx_call.tool = "search_activities" ->
                /\ a.age_min \in {None, <<0>>} \/ get(r.age_min, 0) <= a.age_min[1]
                /\ a.age_max \in {None, <<99>>} \/ get(r.age_max, 99) >= a.age_max[1]
                /\ a.indoor = None \/ r.indoor = a.indoor
                /\ TextWanted(a.location, r.location)
          [] fx_call.tool = "search_recipes" ->
                /\ TextWanted(a.cuisine, r.cuisine)
                /\ TextWanted(a.meal_type, r.meal_type)
                /\ a.max_prep_time \in {None, <<0>>} \/ get(r.prep_time, 0) <= a.max_prep_time[1]
          [] OTHER ->
                /\ TextWanted(a.cuisine, r.cuisine)
                /\ TextWanted(a.location, r.location)
                /\ a.price_range \in {None, <<0>>}
                      \/ Len(get(r.price_range, <<"$">>)) <= a.price_range[1]

NamesOf(records) == [i \in 1..Len(records) |-> records[i].name]

NoFilterGiven == \A k \in DOMAIN fx_call.args : fx_call.args[k] = None

SameNameIgnoringCase ==
    {i \in 1..Len(fx_call.data) :
        lower_text(fx_call.data[i].name) = lower_text(fx_call.args.name)}

====
